---- MODULE Spec2Model ----
(***************************************************************************)
(* Quantum feasibility and simulation engine of Ket-to-Ride                *)
(* (src/src/ket_to_ride/quantum/qiskit_circuit_simulator.py).              *)
(*                                                                         *)
(* The engine is synchronous and stateless between calls, so every         *)
(* operation is modelled as an operator computed the way the code computes *)
(* it, and a behaviour is one call: the initial state holds the arguments, *)
(* the call's action stores what the call returned.                        *)
(*                                                                         *)
(* Conventions.  A path is a sequence of indices into the route list: the  *)
(* code's paths hold the route dict objects themselves, and two equal      *)
(* dicts at different positions of the list are different routes.  State   *)
(* labels are written in ASCII ("|0>" for the ket |0> of the source).      *)
(***************************************************************************)
EXTENDS Integers, Sequences, FiniteSets, TLC

VARIABLES op, args, ret

vars == <<op, args, ret>>

\* The value of `ret` while the call has not returned.
NoReturn == [pending |-> TRUE]

(***************************************************************************)
(* Bounds of the model                                                     *)
(***************************************************************************)
\* Longest route list given to _find_all_paths.
MaxRoutes == 3

\* The cities of the route graphs.
Cities == {"A", "B", "C", "D"}

\* Python's None for next_city; the empty string is as falsy as None.
NoCity == ""

\* Default of _find_all_paths' max_depth parameter.
DefaultMaxDepth == 6

\* The max_depth arguments tried: cutting every path, cutting the paths of
\* two and of three edges, and the default.
MaxDepths == {0, 1, 2, DefaultMaxDepth}

(***************************************************************************)
(* Helpers                                                                 *)
(***************************************************************************)
Range(s) == {s[i] : i \in 1..Len(s)}

SeqsUpTo(S, n) == UNION {[1..k -> S] : k \in 0..n}

Min(a, b) == IF a < b THEN a ELSE b

Max(a, b) == IF a > b THEN a ELSE b

(***************************************************************************)
(* Exact arithmetic for amplitudes.  Every gate of the source has real     *)
(* entries in Z[sqrt 2] over a power of sqrt 2 and of sqrt 3, so a state   *)
(* vector is kept as numerators a + b*sqrt(2), written <<a, b>>, over the  *)
(* common denominator sqrt(2)^k * sqrt(3)^m.                               *)
(***************************************************************************)
ZZero == <<0, 0>>

ZOne == <<1, 0>>

ZAdd(x, y) == <<x[1] + y[1], x[2] + y[2]>>

ZSub(x, y) == <<x[1] - y[1], x[2] - y[2]>>

ZNeg(x) == <<0 - x[1], 0 - x[2]>>

ZMul(x, y) == <<x[1] * y[1] + 2 * x[2] * y[2], x[1] * y[2] + x[2] * y[1]>>

\* x * sqrt(2)
ZTimesSqrt2(x) == <<2 * x[2], x[1]>>

\* a + b*sqrt(2) > 0
ZPositive(x) ==
    LET a == x[1]
        b == x[2]
    IN  IF a >= 0 /\ b >= 0 THEN a > 0 \/ b > 0
        ELSE IF a <= 0 /\ b <= 0 THEN FALSE
        ELSE IF a > 0 THEN a * a > 2 * b * b
        ELSE 2 * b * b > a * a

RECURSIVE Pow(_, _)
Pow(b, e) == IF e = 0 THEN 1 ELSE b * Pow(b, e - 1)

RECURSIVE ZSum(_, _)
\* The sum of f[0], ..., f[n].
ZSum(f, n) == IF n < 0 THEN ZZero ELSE ZAdd(f[n], ZSum(f, n - 1))

\* Bit q of basis-state index i; qubit 0 is the least significant bit.
Bit(i, q) == (i \div Pow(2, q)) % 2

\* Index i with bit q flipped.
Flip(i, q) == IF Bit(i, q) = 1 THEN i - Pow(2, q) ELSE i + Pow(2, q)

\* The vector with its denominator's power of sqrt 2 dropped, as a
\* Hadamard without its factor 1/sqrt(2) would leave it.
drop_sqrt2_factors(sv) == [sv EXCEPT !.k = 0]

RECURSIVE Reduce(_)
\* The same vector with the common factors sqrt(2) cancelled.
Reduce(sv) ==
    IF sv.k > 0 /\ \A i \in DOMAIN sv.amp : sv.amp[i][1] % 2 = 0
    THEN Reduce([sv EXCEPT !.amp = [i \in DOMAIN sv.amp |->
                                        <<sv.amp[i][2], sv.amp[i][1] \div 2>>],
                           !.k = @ - 1])
    ELSE sv

(***************************************************************************)
(* The Qiskit circuit a QiskitQuantumState holds, and its state vector.    *)
(* An instruction is [name, qubits]; names are QuantumCircuit's methods.   *)
(***************************************************************************)
Instr(name, qubits) == [name |-> name, qubits |-> qubits]

\* The effect of one instruction on a state vector.
ApplyInstr(sv, ins) ==
    LET a == sv.amp
        q == ins.qubits
    IN  CASE ins.name = "id" -> sv
          [] ins.name = "x" ->
                [sv EXCEPT !.amp = [i \in DOMAIN a |-> a[Flip(i, q[1])]]]
          [] ins.name = "z" ->
                [sv EXCEPT !.amp = [i \in DOMAIN a |->
                    IF Bit(i, q[1]) = 1 THEN ZNeg(a[i]) ELSE a[i]]]
          [] ins.name = "h" ->
                Reduce([sv EXCEPT
                    !.amp = [i \in DOMAIN a |->
                        IF Bit(i, q[1]) = 0 THEN ZAdd(a[i], a[Flip(i, q[1])])
                        ELSE ZSub(a[Flip(i, q[1])], a[i])],
                    !.k = @ + 1])
          [] ins.name = "cx" ->
                [sv EXCEPT !.amp = [i \in DOMAIN a |->
                    IF Bit(i, q[1]) = 1 THEN a[Flip(i, q[2])] ELSE a[i]]]
          [] ins.name = "ccx" ->
                [sv EXCEPT !.amp = [i \in DOMAIN a |->
                    IF Bit(i, q[1]) = 1 /\ Bit(i, q[2]) = 1 THEN a[Flip(i, q[3])]
                    ELSE a[i]]]
          [] ins.name = "ch" ->
                Reduce([sv EXCEPT
                    !.amp = [i \in DOMAIN a |->
                        IF Bit(i, q[1]) = 0 THEN ZTimesSqrt2(a[i])
                        ELSE IF Bit(i, q[2]) = 0 THEN ZAdd(a[i], a[Flip(i, q[2])])
                        ELSE ZSub(a[Flip(i, q[2])], a[i])],
                    !.k = @ + 1])
          \* ry(2 * arccos(sqrt(2/3))): cos = sqrt(2)/sqrt(3), sin = 1/sqrt(3)
          [] ins.name = "ry" ->
                [sv EXCEPT
                    !.amp = [i \in DOMAIN a |->
                        IF Bit(i, q[1]) = 0
                        THEN ZSub(ZTimesSqrt2(a[i]), a[Flip(i, q[1])])
                        ELSE ZAdd(a[Flip(i, q[1])], ZTimesSqrt2(a[i]))],
                    !.m = @ + 1]

RECURSIVE Table(_, _)
\* The function f on 0..n written out value by value.
Table(f, n) == IF n = 0 THEN 0 :> f[0] ELSE Table(f, n - 1) @@ (n :> f[n])

\* The same state vector with its amplitudes written out, so that a later
\* instruction reads values and not the expressions that gave them.
Tabulated(sv) == [sv EXCEPT !.amp = Table(@, Cardinality(DOMAIN @) - 1)]

RECURSIVE RunCircuit(_, _, _)
\* The state vector after the first n instructions of a circuit.
RunCircuit(sv, circuit, n) ==
    IF n = 0 THEN sv
    ELSE Tabulated(ApplyInstr(RunCircuit(sv, circuit, n - 1), circuit[n]))

\* QiskitQuantumState.get_statevector: Statevector.from_instruction(circuit),
\* the circuit run on the all-zero basis state.
get_statevector(state) ==
    RunCircuit([amp |-> [i \in 0..(Pow(2, state.num_qubits) - 1) |->
                            IF i = 0 THEN ZOne ELSE ZZero],
                k |-> 0, m |-> 0],
               state.circuit, Len(state.circuit))

(***************************************************************************)
(* QiskitQuantumState                                                      *)
(***************************************************************************)
\* The instructions _prepare_initial_state appends for a label.  A label
\* none of the elif branches names appends nothing.
PrepCircuit(state_str, num_qubits) ==
    IF num_qubits = 1 THEN
        CASE state_str = "|0>" -> <<>>
          [] state_str = "|1>" -> <<Instr("x", <<0>>)>>
          [] state_str = "|+>" -> <<Instr("h", <<0>>)>>
          [] state_str = "|->" -> <<Instr("x", <<0>>), Instr("h", <<0>>)>>
          [] OTHER -> <<>>
    ELSE IF num_qubits = 2 THEN
        CASE state_str = "|00>" -> <<>>
          [] state_str = "|01>" -> <<Instr("x", <<0>>)>>
          [] state_str = "|10>" -> <<Instr("x", <<1>>)>>
          [] state_str = "|11>" -> <<Instr("x", <<0>>), Instr("x", <<1>>)>>
          [] state_str \in {"|Bell+>", "|Phi+>"} ->
                <<Instr("h", <<0>>), Instr("cx", <<0, 1>>)>>
          [] state_str \in {"|Bell->", "|Phi->"} ->
                <<Instr("h", <<0>>), Instr("cx", <<0, 1>>), Instr("z", <<0>>)>>
          [] state_str = "|Psi+>" ->
                <<Instr("x", <<0>>), Instr("h", <<1>>), Instr("cx", <<1, 0>>)>>
          [] state_str = "|Psi->" ->
                <<Instr("x", <<0>>), Instr("h", <<1>>), Instr("cx", <<1, 0>>),
                  Instr("z", <<1>>)>>
          [] OTHER -> <<>>
    ELSE
        CASE state_str = "|000>" -> <<>>
          [] state_str = "|001>" -> <<Instr("x", <<0>>)>>
          [] state_str = "|010>" -> <<Instr("x", <<1>>)>>
          [] state_str = "|011>" -> <<Instr("x", <<0>>), Instr("x", <<1>>)>>
          [] state_str = "|100>" -> <<Instr("x", <<2>>)>>
          [] state_str = "|101>" -> <<Instr("x", <<0>>), Instr("x", <<2>>)>>
          [] state_str = "|110>" -> <<Instr("x", <<1>>), Instr("x", <<2>>)>>
          [] state_str = "|111>" ->
                <<Instr("x", <<0>>), Instr("x", <<1>>), Instr("x", <<2>>)>>
          [] state_str = "|GHZ>" ->
                <<Instr("h", <<2>>), Instr("cx", <<2, 1>>), Instr("cx", <<2, 0>>)>>
          [] state_str = "|W>" ->
                <<Instr("ry", <<0>>), Instr("ch", <<0, 1>>),
                  Instr("ccx", <<0, 1, 2>>), Instr("cx", <<0, 1>>)>>
          [] OTHER -> <<>>

\* What a call that raised gives back in place of a value.
Raise == [raised |-> TRUE]

\* QiskitQuantumState(initial_state, num_qubits): __init__ followed by
\* _prepare_initial_state, which raises ValueError only for a qubit count
\* other than 1, 2 or 3.
QiskitQuantumState(initial_state, num_qubits) ==
    IF num_qubits \in {1, 2, 3}
    THEN [raised |-> FALSE,
          state |-> [num_qubits |-> num_qubits,
                     circuit |-> PrepCircuit(initial_state, num_qubits)]]
    ELSE Raise

\* apply_gate with the CNOT the other way round: control 1, target 0.
apply_gate_cnot_reversed(state, gate_name) ==
    LET add(ins) == [raised |-> FALSE,
                     state |-> [state EXCEPT !.circuit = Append(@, ins)]]
    IN  CASE gate_name = "I" -> add(Instr("id", <<0>>))
          [] gate_name = "X" -> add(Instr("x", <<0>>))
          [] gate_name = "Z" -> add(Instr("z", <<0>>))
          [] gate_name = "H" -> add(Instr("h", <<0>>))
          [] gate_name = "CNOT" ->
                IF state.num_qubits = 1 THEN add(Instr("id", <<0>>))
                ELSE add(Instr("cx", <<1, 0>>))
          [] OTHER -> Raise

\* apply_gate with the CNOT of a 3-qubit register aimed at its last qubit.
apply_gate_cnot_on_last_qubit(state, gate_name) ==
    LET add(ins) == [raised |-> FALSE,
                     state |-> [state EXCEPT !.circuit = Append(@, ins)]]
    IN  CASE gate_name = "I" -> add(Instr("id", <<0>>))
          [] gate_name = "X" -> add(Instr("x", <<0>>))
          [] gate_name = "Z" -> add(Instr("z", <<0>>))
          [] gate_name = "H" -> add(Instr("h", <<0>>))
          [] gate_name = "CNOT" ->
                IF state.num_qubits = 1 THEN add(Instr("id", <<0>>))
                ELSE add(Instr("cx", <<0, state.num_qubits - 1>>))
          [] OTHER -> Raise

\* QiskitQuantumState.apply_gate: every gate acts on qubit 0, CNOT on
\* qubits (0, 1); any other name raises ValueError.
apply_gate(state, gate_name) ==
    LET add(ins) == [raised |-> FALSE,
                     state |-> [state EXCEPT !.circuit = Append(@, ins)]]
    IN  CASE gate_name = "I" -> add(Instr("id", <<0>>))
          [] gate_name = "X" -> add(Instr("x", <<0>>))
          [] gate_name = "Z" -> add(Instr("z", <<0>>))
          [] gate_name = "H" -> add(Instr("h", <<0>>))
          [] gate_name = "CNOT" ->
                IF state.num_qubits = 1 THEN add(Instr("id", <<0>>))
                ELSE IF state.num_qubits >= 2 THEN add(Instr("cx", <<0, 1>>))
                ELSE [raised |-> FALSE, state |-> state]
          [] OTHER -> Raise

\* x < y for amplitudes' squares, used by measure.
ZLess(x, y) == ZPositive(ZSub(y, x))

\* np.argmax(probabilities): the first index of largest probability, for
\* amplitudes amp over a common denominator.
ArgMax(amp) ==
    CHOOSE i \in DOMAIN amp :
        /\ \A j \in DOMAIN amp : ~ZLess(ZMul(amp[i], amp[i]), ZMul(amp[j], amp[j]))
        /\ \A j \in DOMAIN amp :
               j < i => ZLess(ZMul(amp[j], amp[j]), ZMul(amp[i], amp[i]))

\* The label measure returns for index max_idx.
BasisLabel(num_qubits, max_idx) ==
    IF num_qubits = 1 THEN <<"|0>", "|1>">>[max_idx + 1]
    ELSE IF num_qubits = 2 THEN <<"|00>", "|01>", "|10>", "|11>">>[max_idx + 1]
    ELSE <<"|000>", "|001>", "|010>", "|011>",
           "|100>", "|101>", "|110>", "|111>">>[max_idx + 1]

\* QiskitQuantumState.measure: the label of the most probable basis state.
measure(state) ==
    BasisLabel(state.num_qubits, ArgMax(get_statevector(state).amp))

\* a or -a, whichever is not negative.
ZAbs(x) == IF ZPositive(x) THEN x ELSE ZNeg(x)

\* The threshold test on the magnitudes of the amplitudes alone, which is
\* blind to their signs.
FidelityOfMagnitudes(target_sv, current_sv) ==
    LET inner == ZSum([i \in DOMAIN current_sv.amp |->
                          ZMul(ZAbs(target_sv.amp[i]), ZAbs(current_sv.amp[i]))],
                      Cardinality(DOMAIN current_sv.amp) - 1)
        sq == ZMul(inner, inner)
        den == Pow(2, target_sv.k + current_sv.k) * Pow(3, target_sv.m + current_sv.m)
    IN  ZPositive(<<100 * sq[1] - 99 * den, 100 * sq[2]>>)

\* The test `fidelity > 1.0 - tolerance` for tolerance = 0.01, where
\* fidelity = |<target|current>|^2: with the inner product (P + Q sqrt 2)
\* over sqrt(2)^K sqrt(3)^M, 100 (P + Q sqrt 2)^2 > 99 * 2^K * 3^M.
FidelityAboveThreshold(target_sv, current_sv) ==
    LET inner == ZSum([i \in DOMAIN current_sv.amp |->
                          ZMul(target_sv.amp[i], current_sv.amp[i])],
                      Cardinality(DOMAIN current_sv.amp) - 1)
        sq == ZMul(inner, inner)
        den == Pow(2, target_sv.k + current_sv.k) * Pow(3, target_sv.m + current_sv.m)
    IN  ZPositive(<<100 * sq[1] - 99 * den, 100 * sq[2]>>)

\* The body of matches_target's try block, given the target state built.
FidelityMatch(state, target_quantum_state) ==
    FidelityAboveThreshold(get_statevector(target_quantum_state),
                           get_statevector(state))

\* matches_target given what QiskitQuantumState(target_state, num_qubits)
\* gave: the except branch is taken only if that construction raised.
MatchAgainst(state, target_state, built) ==
    IF built.raised THEN measure(state) = target_state
    ELSE FidelityMatch(state, built.state)

\* matches_target as the comparison of the most likely basis state alone,
\* which is what its except branch does.
matches_by_measure(state, target_state) == measure(state) = target_state

\* QiskitQuantumState.matches_target with the default tolerance.
matches_target(state, target_state) ==
    MatchAgainst(state, target_state,
                 QiskitQuantumState(target_state, state.num_qubits))

(***************************************************************************)
(* The single-qubit simulator of circuit_simulator.py: QuantumState holds  *)
(* state_vector, kept like a Qiskit state vector as numerators over        *)
(* sqrt(2)^k; a gate matrix is [rows, k], its entries rows[r][c] over      *)
(* sqrt(2)^k.                                                              *)
(***************************************************************************)
\* QuantumState(initial_state): |0> or |1>, ValueError otherwise.
QuantumState(initial_state) ==
    IF initial_state = "|0>"
    THEN [raised |-> FALSE, state_vector |-> [amp |-> <<ZOne, ZZero>>, k |-> 0]]
    ELSE IF initial_state = "|1>"
    THEN [raised |-> FALSE, state_vector |-> [amp |-> <<ZZero, ZOne>>, k |-> 0]]
    ELSE Raise

\* The matrices of QuantumGates that CircuitSimulator.gate_matrices names.
QuantumGates(gate_name) ==
    CASE gate_name = "I" -> [rows |-> <<<<ZOne, ZZero>>, <<ZZero, ZOne>>>>, k |-> 0]
      [] gate_name = "X" -> [rows |-> <<<<ZZero, ZOne>>, <<ZOne, ZZero>>>>, k |-> 0]
      [] gate_name = "Z" -> [rows |-> <<<<ZOne, ZZero>>, <<ZZero, ZNeg(ZOne)>>>>, k |-> 0]
      [] gate_name = "H" -> [rows |-> <<<<ZOne, ZOne>>, <<ZOne, ZNeg(ZOne)>>>>, k |-> 1]
      [] gate_name = "CNOT" -> [rows |-> <<<<ZOne, ZZero>>, <<ZZero, ZOne>>>>, k |-> 0]

\* QuantumState.apply_gate: state_vector = gate_matrix @ state_vector
QuantumState_apply_gate(state_vector, gate_matrix) ==
    [amp |-> <<ZAdd(ZMul(gate_matrix.rows[1][1], state_vector.amp[1]),
                    ZMul(gate_matrix.rows[1][2], state_vector.amp[2])),
               ZAdd(ZMul(gate_matrix.rows[2][1], state_vector.amp[1]),
                    ZMul(gate_matrix.rows[2][2], state_vector.amp[2]))>>,
     k |-> state_vector.k + gate_matrix.k]

RECURSIVE QuantumState_apply_gates(_, _, _)
\* The loop of the single-qubit simulate_circuit over the first n gates; a
\* name that gate_matrices lacks raises ValueError.
QuantumState_apply_gates(state_vector, gate_sequence, n) ==
    IF n = 0 THEN [raised |-> FALSE, state_vector |-> state_vector]
    ELSE IF QuantumState_apply_gates(state_vector, gate_sequence, n - 1).raised
            \/ gate_sequence[n] \notin {"I", "X", "Z", "H", "CNOT"}
    THEN Raise
    ELSE [raised |-> FALSE,
          state_vector |->
              QuantumState_apply_gate(
                  QuantumState_apply_gates(state_vector, gate_sequence, n - 1).state_vector,
                  QuantumGates(gate_sequence[n]))]

\* The simulate_circuit of circuit_simulator.py.
single_qubit_simulate_circuit(initial_state, gate_sequence) ==
    IF QuantumState(initial_state).raised THEN Raise
    ELSE QuantumState_apply_gates(QuantumState(initial_state).state_vector,
                                  gate_sequence, Len(gate_sequence))

(***************************************************************************)
(* PathEnumerator: QiskitCircuitSimulator._find_all_paths                  *)
(***************************************************************************)
RECURSIVE dfs(_, _, _, _, _), dfsRoutes(_, _, _, _, _, _)

\* dfs with the `visited.add(current_city)` statement left out.
dfs_no_add(ctx, st, current_city, current_path, depth) ==
    IF depth > ctx.max_depth THEN st
    ELSE IF current_city = ctx.target /\ current_path # <<>>
         THEN [st EXCEPT !.paths = Append(@, current_path)]
    ELSE IF current_city \in st.visited THEN st
    ELSE LET st2 == dfsRoutes(ctx, st, current_city, current_path, depth, 1)
         IN  [st2 EXCEPT !.visited = @ \ {current_city}]

\* dfs with the `visited.remove(current_city)` statement left out, which
\* turns the branch-scoped visited set into a global one.
dfs_no_remove(ctx, st, current_city, current_path, depth) ==
    IF depth > ctx.max_depth THEN st
    ELSE IF current_city = ctx.target /\ current_path # <<>>
         THEN [st EXCEPT !.paths = Append(@, current_path)]
    ELSE IF current_city \in st.visited THEN st
    ELSE LET st1 == [st EXCEPT !.visited = @ \cup {current_city}]
         IN  dfsRoutes(ctx, st1, current_city, current_path, depth, 1)

\* The nested function dfs(current_city, current_path, depth).  ctx holds
\* the enclosing call's routes, target and max_depth; st holds the two
\* objects the closure mutates, `paths` and `visited`.
dfs(ctx, st, current_city, current_path, depth) ==
    IF depth > ctx.max_depth THEN st
    ELSE IF current_city = ctx.target /\ current_path # <<>>
         THEN [st EXCEPT !.paths = Append(@, current_path)]
    ELSE IF current_city \in st.visited THEN st
    ELSE LET st1 == [st EXCEPT !.visited = @ \cup {current_city}]
             st2 == dfsRoutes(ctx, st1, current_city, current_path, depth, 1)
         IN  [st2 EXCEPT !.visited = @ \ {current_city}]

\* The loop `for route in routes` of dfs, from the i-th route on.
dfsRoutes(ctx, st, current_city, current_path, depth, i) ==
    IF i > Len(ctx.routes) THEN st
    ELSE LET route == ctx.routes[i]
             next_city == IF route.from = current_city THEN route.to
                          ELSE IF route.to = current_city THEN route.from
                          ELSE NoCity
             st1 == IF next_city # NoCity /\ next_city \notin st.visited
                    THEN dfs(ctx, st, next_city, Append(current_path, i), depth + 1)
                    ELSE st
         IN  dfsRoutes(ctx, st1, current_city, current_path, depth, i + 1)

\* _find_all_paths without its `if start == target: return [[]]`.
find_all_paths_no_early_return(start, target, routes, max_depth) ==
    dfs([routes |-> routes, target |-> target, max_depth |-> max_depth],
        [paths |-> <<>>, visited |-> {}], start, <<>>, 0).paths

_find_all_paths(start, target, routes, max_depth) ==
    IF start = target THEN << <<>> >>
    ELSE dfs([routes |-> routes, target |-> target, max_depth |-> max_depth],
             [paths |-> <<>>, visited |-> {}], start, <<>>, 0).paths

(***************************************************************************)
(* QiskitCircuitSimulator: simulation of one gate assignment               *)
(***************************************************************************)
\* _infer_num_qubits; the label "|00> + |11>" is listed among the
\* two-qubit labels, and an unlisted label defaults to one qubit.
_infer_num_qubits(state_str) ==
    IF state_str \in {"|0>", "|1>", "|+>", "|->"} THEN 1
    ELSE IF state_str \in {"|00>", "|01>", "|10>", "|11>", "|Bell+>", "|Bell->",
                           "|Phi+>", "|Phi->", "|Psi+>", "|Psi->", "|00> + |11>"}
         THEN 2
    ELSE IF state_str \in {"|000>", "|001>", "|010>", "|011>", "|100>", "|101>",
                           "|110>", "|111>", "|GHZ>", "|W>"}
         THEN 3
    ELSE 1

RECURSIVE ApplyGates(_, _, _)

\* After the i-th apply_gate gave r: its ValueError propagates, otherwise
\* the loop goes on.
AfterGate(r, gate_sequence, i) ==
    IF r.raised THEN Raise ELSE ApplyGates(r.state, gate_sequence, i + 1)

\* The loop `for gate_name in gate_sequence: state.apply_gate(gate_name)`
\* from the i-th gate on; an apply_gate that raises ends it.
ApplyGates(state, gate_sequence, i) ==
    IF i > Len(gate_sequence) THEN [raised |-> FALSE, state |-> state]
    ELSE AfterGate(apply_gate(state, gate_sequence[i]), gate_sequence, i)

\* simulate_circuit after the state was constructed.
RunGates(s, gate_sequence) ==
    IF s.raised THEN Raise ELSE ApplyGates(s.state, gate_sequence, 1)

\* simulate_circuit with num_qubits given.
simulate_circuit(initial_state, gate_sequence, num_qubits) ==
    RunGates(QiskitQuantumState(initial_state, num_qubits), gate_sequence)

\* [gate_type] * length: a list of `length` copies, empty for length <= 0.
Repeat(gate_type, length) == [j \in 1..length |-> gate_type]

\* gate_sequence.append(gate_type): the gate once, whatever the length.
extend_once(gate_sequence, gate_type, length) ==
    Append(gate_sequence, gate_type)

\* gate_sequence.extend([gate_type] * length)
extend_gate_sequence(gate_sequence, gate_type, length) ==
    gate_sequence \o Repeat(gate_type, length)

RECURSIVE BuildGateSequence(_, _)
\* The loop `for gate_type, length in route_gates` of simulate_path over
\* the first n pairs.
BuildGateSequence(route_gates, n) ==
    IF n = 0 THEN <<>>
    ELSE extend_gate_sequence(BuildGateSequence(route_gates, n - 1),
                              route_gates[n][1], route_gates[n][2])

\* The end of simulate_path, given the gate sequence built and what
\* simulate_circuit gave for it.
PathResult(target_state, gate_sequence, final) ==
    IF final.raised THEN Raise
    ELSE [raised |-> FALSE,
          success |-> matches_target(final.state, target_state),
          final_state |-> final.state,
          gate_sequence |-> gate_sequence]

\* simulate_path for the gate sequence built from route_gates.
SimulateSequence(initial_state, target_state, gate_sequence) ==
    PathResult(target_state, gate_sequence,
               simulate_circuit(initial_state, gate_sequence,
                                Max(_infer_num_qubits(initial_state),
                                    _infer_num_qubits(target_state))))

\* simulate_path: (success, final_state, gate_sequence), or the ValueError
\* of an unknown gate.
simulate_path(initial_state, route_gates, target_state) ==
    SimulateSequence(initial_state, target_state,
                     BuildGateSequence(route_gates, Len(route_gates)))

(***************************************************************************)
(* FeasibilityService: QiskitCircuitSimulator.check_route_feasibility      *)
(*                                                                         *)
(* A route's gate is kept as the list `gates` the code normalises it to    *)
(* (a single label is the one-element list).  Besides what the method      *)
(* returns, the model records in `calls` every call of simulate_path the   *)
(* search makes, in order, with its outcome; of a witness it keeps every   *)
(* field but the display string 'final_state'.                             *)
(***************************************************************************)
\* gate_choices of a path: per route, the (gate, length) pairs of its gates.
gate_choices_of(path, available_routes) ==
    [j \in 1..Len(path) |->
        LET route == available_routes[path[j]]
        IN  [g \in 1..Len(route.gate) |-> <<route.gate[g], route.length>>]]

RECURSIVE itertools_product(_)
\* itertools.product(*pools) as a list: the first pool's elements in order,
\* each followed by every product of the remaining pools.
itertools_product(pools) ==
    IF pools = <<>> THEN << <<>> >>
    ELSE LET head == Head(pools)
             rest == itertools_product(Tail(pools))
         IN  [n \in 1..(Len(head) * Len(rest)) |->
                 <<head[((n - 1) \div Len(rest)) + 1]>>
                     \o rest[((n - 1) % Len(rest)) + 1]]

\* The record `calls` keeps of the n-th simulate_path call for a path.
Call(who, n, gate_combination, outcome) ==
    [city |-> who.city, path |-> who.path, n |-> n,
     gate_combination |-> gate_combination, outcome |-> outcome]

RECURSIVE TryCombinations(_, _, _, _, _)

\* The witness dict appended for a passing combination.
Witness(who, gate_combination, r) ==
    [start_city |-> who.start_city, path |-> who.path,
     gate_combination |-> gate_combination, gate_sequence |-> r.gate_sequence]

\* The loop body without its try/except: a raising simulate_path ends the
\* whole call.
TryOne_no_except(ctx, who, combos, n, calls, r) ==
    IF r.raised
    THEN [raised |-> TRUE, found |-> FALSE,
          calls |-> Append(calls, Call(who, n, combos[n], "raised"))]
    ELSE IF r.success
    THEN [raised |-> FALSE, found |-> TRUE,
          witness |-> Witness(who, combos[n], r),
          calls |-> Append(calls, Call(who, n, combos[n], "success"))]
    ELSE TryCombinations(ctx, who, combos, n + 1,
                         Append(calls, Call(who, n, combos[n], "failure")))

\* The loop body with `break` in the except branch in place of `continue`.
TryOne_break_on_error(ctx, who, combos, n, calls, r) ==
    IF r.raised
    THEN [raised |-> FALSE, found |-> FALSE,
          calls |-> Append(calls, Call(who, n, combos[n], "raised"))]
    ELSE IF r.success
    THEN [raised |-> FALSE, found |-> TRUE,
          witness |-> Witness(who, combos[n], r),
          calls |-> Append(calls, Call(who, n, combos[n], "success"))]
    ELSE TryCombinations(ctx, who, combos, n + 1,
                         Append(calls, Call(who, n, combos[n], "failure")))

\* The first witness found, by a loop that goes on after a success.
KeepFirst(who, combos, n, r, later) ==
    [raised |-> later.raised, found |-> TRUE,
     witness |-> Witness(who, combos[n], r), calls |-> later.calls]

\* The loop body without the `break` after a success: the rest of the
\* path's combinations are simulated too.
TryOne_no_break(ctx, who, combos, n, calls, r) ==
    IF r.raised
    THEN TryCombinations(ctx, who, combos, n + 1,
                         Append(calls, Call(who, n, combos[n], "raised")))
    ELSE IF r.success
    THEN KeepFirst(who, combos, n, r,
                   TryCombinations(ctx, who, combos, n + 1,
                                   Append(calls, Call(who, n, combos[n], "success"))))
    ELSE TryCombinations(ctx, who, combos, n + 1,
                         Append(calls, Call(who, n, combos[n], "failure")))

\* The body of the loop over gate combinations for the n-th combination,
\* r being what its simulate_path call gave: a call that raised is skipped
\* (`except Exception: continue`), a success is recorded and ends the loop
\* (`break`), a failure goes on to the next combination.
TryOne(ctx, who, combos, n, calls, r) ==
    IF r.raised
    THEN TryCombinations(ctx, who, combos, n + 1,
                         Append(calls, Call(who, n, combos[n], "raised")))
    ELSE IF r.success
    THEN [raised |-> FALSE, found |-> TRUE,
          witness |-> Witness(who, combos[n], r),
          calls |-> Append(calls, Call(who, n, combos[n], "success"))]
    ELSE TryCombinations(ctx, who, combos, n + 1,
                         Append(calls, Call(who, n, combos[n], "failure")))

\* The loop `for gate_combination in itertools.product(*gate_choices)`
\* from the n-th combination on (lines 326-345 and 369-388 are the same
\* loop).  `who` names the start city and the path searched.
TryCombinations(ctx, who, combos, n, calls) ==
    IF n > Len(combos) THEN [raised |-> FALSE, found |-> FALSE, calls |-> calls]
    ELSE TryOne(ctx, who, combos, n, calls,
                simulate_path(ctx.initial_state, combos[n], ctx.target_state))

\* `if gate_choices:` and the loop over their product.
SearchChoices(ctx, who, calls, gate_choices) ==
    IF gate_choices # <<>>
    THEN TryCombinations(ctx, who, itertools_product(gate_choices), 1, calls)
    ELSE [raised |-> FALSE, found |-> FALSE, calls |-> calls]

\* One path of either branch: build gate_choices and search them.
SearchPath(ctx, who, calls) ==
    SearchChoices(ctx, who, calls, gate_choices_of(who.path, ctx.available_routes))

\* Single-start branch, after the search r of one path: a witness found
\* is appended to feasible_paths.
SingleAfterPath(st, r) ==
    [raised |-> r.raised,
     feasible_paths |-> IF r.found THEN Append(st.feasible_paths, r.witness)
                        ELSE st.feasible_paths,
     calls |-> r.calls]

RECURSIVE SinglePaths(_, _, _, _, _, _)
\* Single-start branch: the loop `for path in paths` from the p-th path on.
SinglePaths(ctx, st, start_city, c, paths, p) ==
    IF p > Len(paths) \/ st.raised THEN st
    ELSE SinglePaths(ctx,
                     SingleAfterPath(st, SearchPath(ctx, [start_city |-> start_city,
                                                          city |-> c, path |-> paths[p]],
                                                    st.calls)),
                     start_city, c, paths, p + 1)

RECURSIVE SingleCities(_, _, _, _)
\* Single-start branch: the loop `for start_city in start_cities`.
SingleCities(ctx, st, start_cities, c) ==
    IF c > Len(start_cities) \/ st.raised THEN st
    ELSE SingleCities(ctx,
                      SinglePaths(ctx, st, start_cities[c], c,
                                  _find_all_paths(start_cities[c], ctx.target_city,
                                                  ctx.available_routes, DefaultMaxDepth),
                                  1),
                      start_cities, c + 1)

\* city_feasible_paths[start_city] = value on a dict kept as the list of
\* its values in insertion order.
DictSet(dict, start_city, value) ==
    IF \E i \in 1..Len(dict) : dict[i].start_city = start_city
    THEN [i \in 1..Len(dict) |->
             IF dict[i].start_city = start_city THEN value ELSE dict[i]]
    ELSE Append(dict, value)

\* Multi-start branch, after the search r of one path: a witness found
\* sets city_feasible and city_feasible_paths[start_city].
MultiAfterPath(st, start_city, r) ==
    [st EXCEPT !.raised = r.raised,
               !.city_feasible = @ \/ r.found,
               !.city_feasible_paths =
                   IF r.found THEN DictSet(@, start_city, r.witness) ELSE @,
               !.calls = r.calls]

RECURSIVE MultiPaths(_, _, _, _, _, _)
\* Multi-start branch: the loop `for path in city_paths` from the p-th path
\* on; st.city_feasible is the flag of the city being searched.
MultiPaths(ctx, st, start_city, c, paths, p) ==
    IF p > Len(paths) \/ st.raised THEN st
    ELSE MultiPaths(ctx,
                    MultiAfterPath(st, start_city,
                                   SearchPath(ctx, [start_city |-> start_city,
                                                    city |-> c, path |-> paths[p]],
                                              st.calls)),
                    start_city, c, paths, p + 1)

RECURSIVE MultiCities(_, _, _, _)

\* The end of the loop body without `all_cities_feasible = False; break`.
MultiAfterCity_no_all_check(ctx, st1, start_cities, c) ==
    MultiCities(ctx, st1, start_cities, c + 1)

\* Multi-start branch, after the paths of the c-th city were searched with
\* result st1: `if not city_feasible: all_cities_feasible = False; break`.
MultiAfterCity(ctx, st1, start_cities, c) ==
    IF st1.raised THEN st1
    ELSE IF ~st1.city_feasible THEN [st1 EXCEPT !.all_cities_feasible = FALSE]
    ELSE MultiCities(ctx, st1, start_cities, c + 1)

\* Multi-start branch: the loop `for start_city in start_cities`.
MultiCities(ctx, st, start_cities, c) ==
    IF c > Len(start_cities) \/ st.raised THEN st
    ELSE MultiAfterCity(ctx,
                        MultiPaths(ctx, [st EXCEPT !.city_feasible = FALSE],
                                   start_cities[c], c,
                                   _find_all_paths(start_cities[c], ctx.target_city,
                                                   ctx.available_routes,
                                                   DefaultMaxDepth),
                                   1),
                        start_cities, c)

\* Multi-start branch: `if all_cities_feasible: feasible_paths =
\* list(city_feasible_paths.values())`.
MultiResult(st) ==
    [raised |-> st.raised,
     feasible_paths |-> IF st.all_cities_feasible /\ ~st.raised
                        THEN st.city_feasible_paths ELSE <<>>,
     calls |-> st.calls]

\* The two branches of check_route_feasibility over the call's context.
FeasibilityBranches(ctx, start_cities) ==
    IF Len(start_cities) > 1
    THEN MultiResult(MultiCities(ctx, [raised |-> FALSE, calls |-> <<>>,
                                       all_cities_feasible |-> TRUE,
                                       city_feasible |-> FALSE,
                                       city_feasible_paths |-> <<>>],
                                 start_cities, 1))
    ELSE SingleCities(ctx, [raised |-> FALSE, feasible_paths |-> <<>>, calls |-> <<>>],
                      start_cities, 1)

\* check_route_feasibility: `raised` tells whether an exception left the
\* call, feasible_paths is the list returned, calls the simulate_path calls
\* made.
check_route_feasibility(start_cities, target_city, initial_state, target_state, available_routes) ==
    FeasibilityBranches([target_city |-> target_city, initial_state |-> initial_state,
                         target_state |-> target_state,
                         available_routes |-> available_routes],
                        start_cities)

(***************************************************************************)
(* QiskitCircuitSimulator.simulate_multi_qubit_path                        *)
(***************************************************************************)
\* gate_options: the gate list of every route in player_routes, in order.
gate_options_of(player_routes) ==
    [j \in 1..Len(player_routes) |-> player_routes[j].gate]

\* `return False, QiskitQuantumState(initial_state, num_qubits), []`, s
\* being what the constructor gave.
NoCombinationMatched(s) ==
    IF s.raised THEN Raise
    ELSE [raised |-> FALSE, success |-> FALSE, final_state |-> s.state,
          gate_sequence |-> <<>>]

RECURSIVE TryGateCombos(_, _, _, _, _)

\* The body of `for gate_combo in all_gate_combinations` for the n-th
\* combination, final being the register after its gates: nothing catches
\* the ValueError of the constructor or of apply_gate, so it leaves the
\* call; a match returns; otherwise the loop goes on.
AfterGateCombo(initial_state, target_state, num_qubits, combos, n, final) ==
    IF final.raised THEN Raise
    ELSE IF matches_target(final.state, target_state)
    THEN [raised |-> FALSE, success |-> TRUE, final_state |-> final.state,
          gate_sequence |-> combos[n]]
    ELSE TryGateCombos(initial_state, target_state, num_qubits, combos, n + 1)

\* The loop over all_gate_combinations from the n-th on.  gate_sequence is
\* the combination itself: every gate is appended once, route lengths
\* play no part.
TryGateCombos(initial_state, target_state, num_qubits, combos, n) ==
    IF n > Len(combos)
    THEN NoCombinationMatched(QiskitQuantumState(initial_state, num_qubits))
    ELSE AfterGateCombo(initial_state, target_state, num_qubits, combos, n,
                        RunGates(QiskitQuantumState(initial_state, num_qubits),
                                 combos[n]))

\* simulate_multi_qubit_path: (success, state, gate_sequence), or the
\* ValueError that left the call.  target_city is not used.
simulate_multi_qubit_path(start_cities, target_city, initial_state, target_state, player_routes) ==
    TryGateCombos(initial_state, target_state, Len(start_cities),
                  itertools_product(gate_options_of(player_routes)), 1)

(***************************************************************************)
(* Player: MissionCard (src/src/ket_to_ride/game/player.py).  The          *)
(* start_cities argument is [is_list, value]: value is the list given,     *)
(* or, when a single city was given bare, holds that city alone.           *)
(***************************************************************************)
\* MissionCard._count_qubits
_count_qubits(state_str) ==
    IF state_str \in {"|0>", "|1>", "|+>", "|->"} THEN 1
    ELSE IF state_str \in {"|00>", "|01>", "|10>", "|11>", "|Bell+>", "|Bell->",
                           "|Phi+>", "|Phi->", "|Psi+>", "|Psi->"}
         THEN 2
    ELSE IF state_str \in {"|000>", "|001>", "|010>", "|011>", "|100>", "|101>",
                           "|110>", "|111>", "|GHZ>", "|W>"}
         THEN 3
    ELSE 1

\* `start_cities if isinstance(start_cities, list) else [start_cities]`
start_cities_of(start_cities) ==
    IF start_cities.is_list THEN start_cities.value
    ELSE <<start_cities.value[1]>>

\* MissionCard._validate_quantum_complexity: TRUE when it raises ValueError.
_validate_quantum_complexity(card) ==
    Len(card.start_cities) < card.num_qubits

\* MissionCard.__init__ once the fields are set.
Validated(card) ==
    IF _validate_quantum_complexity(card) THEN Raise
    ELSE [raised |-> FALSE, card |-> card]

\* MissionCard(start_cities, target_city, initial_state, target_state,
\* points, difficulty)
MissionCard(start_cities, target_city, initial_state, target_state, points, difficulty) ==
    Validated([start_cities |-> start_cities_of(start_cities),
               target_city |-> target_city,
               initial_state |-> initial_state,
               target_state |-> target_state,
               points |-> points,
               difficulty |-> difficulty,
               completed |-> FALSE,
               num_qubits |-> Max(_count_qubits(initial_state),
                                  _count_qubits(target_state))])

(***************************************************************************)
(* GameState: the routes a player has claimed and mission completion.      *)
(* A route is [from, to, gate, length, claimed_by]; claimed_by is the dict *)
(* of the source kept as the list of its items in insertion order, an item *)
(* being [gate, is_list, owners]: owners holds the one owner of the gate,  *)
(* or, when is_list, the owners of the instances of a repeated gate.       *)
(***************************************************************************)
\* The owner None.
NoPlayer == ""

\* player_claimed_gate = None.
NoGate == ""

\* The loop `for gate, owner in claimed_by.items()` of get_path_routes from
\* the k-th item on: the first gate of which the player owns an instance.
RECURSIVE player_claimed_gate(_, _, _)
player_claimed_gate(claimed_by, player_id, k) ==
    IF k > Len(claimed_by) THEN NoGate
    ELSE IF \E j \in 1..Len(claimed_by[k].owners) : claimed_by[k].owners[j] = player_id
    THEN claimed_by[k].gate
    ELSE player_claimed_gate(claimed_by, player_id, k + 1)

\* The city a route leads to from `current`, None if it does not touch it.
next_city_of(route, current) ==
    IF route.from = current THEN route.to
    ELSE IF route.to = current THEN route.from
    ELSE NoCity

\* route.copy() with route_copy['claimed_with_gate'] set.
route_copy_of(route, gate) ==
    [from |-> route.from, to |-> route.to, gate |-> route.gate,
     length |-> route.length, claimed_by |-> route.claimed_by,
     claimed_with_gate |-> gate]

RECURSIVE bfs(_, _, _)
RECURSIVE bfsRoutes(_, _, _, _, _)

\* The loop `for route in self.routes` of get_path_routes from the i-th
\* route on, for the queue item (current, path_routes) just popped.
bfsRoutes(ctx, item, queue, visited, i) ==
    IF i > Len(ctx.routes) THEN bfs(ctx, queue, visited)
    ELSE LET route == ctx.routes[i]
             gate == player_claimed_gate(route.claimed_by, ctx.player_id, 1)
             next_city == next_city_of(route, item.current)
             new_path == Append(item.path_routes, route_copy_of(route, gate))
         IN  IF gate # NoGate /\ next_city # NoCity /\ next_city \notin visited
             THEN IF next_city = ctx.target THEN new_path
                  ELSE bfsRoutes(ctx, item,
                                 Append(queue, [current |-> next_city,
                                                path_routes |-> new_path]),
                                 visited, i + 1)
             ELSE bfsRoutes(ctx, item, queue, visited, i + 1)

\* The loop `while queue` of get_path_routes.
bfs(ctx, queue, visited) ==
    IF queue = <<>> THEN <<>>
    ELSE IF Head(queue).current \in visited THEN bfs(ctx, Tail(queue), visited)
    ELSE bfsRoutes(ctx, Head(queue), Tail(queue),
                   visited \cup {Head(queue).current}, 1)

\* GameState.get_path_routes: the copies of the routes of the first path
\* the breadth-first search finds over the routes the player has claimed.
get_path_routes(routes, player_id, start, target) ==
    IF start = target THEN <<>>
    ELSE bfs([routes |-> routes, player_id |-> player_id, target |-> target],
             <<[current |-> start, path_routes |-> <<>>]>>, {})

RECURSIVE AddRoutes(_, _, _)

(***************************************************************************)
(* get_path_routes on the objects it handles.  heap is the list of dict    *)
(* objects: the first num_routes are the dicts of self.routes in order,    *)
(* the others were made by route.copy().  A dict is a route record with    *)
(* the field claimed_with_gate, NoGate while it lacks that key; a path     *)
(* holds positions in heap.                                                *)
(***************************************************************************)
\* The dict object of a route of self.routes.
RouteObject(route) ==
    [from |-> route.from, to |-> route.to, gate |-> route.gate,
     length |-> route.length, claimed_by |-> route.claimed_by,
     claimed_with_gate |-> NoGate]

\* The route narrowed in place to the gate it was claimed under, with no
\* copy made: route['gate'] = [player_claimed_gate].
take_route_in_place(heap, i, gate) ==
    [heap |-> [heap EXCEPT ![i].gate = <<gate>>], ref |-> i]

\* `route_copy = route.copy(); route_copy['claimed_with_gate'] =
\* player_claimed_gate`: a new object, and the store into it.
take_route_copy(heap, i, gate) ==
    [heap |-> Append(heap, [heap[i] EXCEPT !.claimed_with_gate = gate]),
     ref |-> Len(heap) + 1]

RECURSIVE heap_bfs(_, _, _, _)
RECURSIVE heap_bfsRoutes(_, _, _, _, _, _)

\* The body of `if next_city and next_city not in visited` once the copy
\* `taken` was made.
heap_bfsTaken(ctx, taken, item, queue, visited, i, next_city) ==
    IF next_city = ctx.target
    THEN [heap |-> taken.heap, path |-> Append(item.path_routes, taken.ref)]
    ELSE heap_bfsRoutes(ctx, taken.heap, item,
                        Append(queue, [current |-> next_city,
                                       path_routes |-> Append(item.path_routes,
                                                              taken.ref)]),
                        visited, i + 1)

\* The loop `for route in self.routes` from the i-th route on.
heap_bfsRoutes(ctx, heap, item, queue, visited, i) ==
    IF i > ctx.num_routes THEN heap_bfs(ctx, heap, queue, visited)
    ELSE IF /\ player_claimed_gate(heap[i].claimed_by, ctx.player_id, 1) # NoGate
            /\ next_city_of(heap[i], item.current) # NoCity
            /\ next_city_of(heap[i], item.current) \notin visited
    THEN heap_bfsTaken(ctx,
                       take_route_copy(heap, i,
                                       player_claimed_gate(heap[i].claimed_by,
                                                           ctx.player_id, 1)),
                       item, queue, visited, i, next_city_of(heap[i], item.current))
    ELSE heap_bfsRoutes(ctx, heap, item, queue, visited, i + 1)

\* The loop `while queue`.
heap_bfs(ctx, heap, queue, visited) ==
    IF queue = <<>> THEN [heap |-> heap, path |-> <<>>]
    ELSE IF Head(queue).current \in visited THEN heap_bfs(ctx, heap, Tail(queue), visited)
    ELSE heap_bfsRoutes(ctx, heap, Head(queue), Tail(queue),
                        visited \cup {Head(queue).current}, 1)

\* get_path_routes with the objects it leaves behind: the heap after the
\* call and the path returned.
get_path_routes_on_heap(routes, player_id, start, target) ==
    IF start = target
    THEN [heap |-> [i \in 1..Len(routes) |-> RouteObject(routes[i])], path |-> <<>>]
    ELSE heap_bfs([num_routes |-> Len(routes), player_id |-> player_id,
                   target |-> target],
                  [i \in 1..Len(routes) |-> RouteObject(routes[i])],
                  <<[current |-> start, path_routes |-> <<>>]>>, {})

\* The loop without its `if route not in player_routes_for_mission`.
AddRoutes_no_dedup(player_routes, path_routes, j) ==
    player_routes \o SubSeq(path_routes, j, Len(path_routes))

\* `for route in path_routes: if route not in player_routes_for_mission:
\* player_routes_for_mission.append(route)` from the j-th route on.
AddRoutes(player_routes, path_routes, j) ==
    IF j > Len(path_routes) THEN player_routes
    ELSE AddRoutes(IF path_routes[j] \in Range(player_routes) THEN player_routes
                   ELSE Append(player_routes, path_routes[j]),
                   path_routes, j + 1)

RECURSIVE player_routes_for_mission(_, _)
\* The routes of the first n paths of all_path_routes, each route once.
player_routes_for_mission(all_path_routes, n) ==
    IF n = 0 THEN <<>>
    ELSE AddRoutes(player_routes_for_mission(all_path_routes, n - 1),
                   all_path_routes[n], 1)

RECURSIVE AllPathRoutes(_, _, _, _, _)

\* After get_path_routes gave path_routes for the c-th start city: no path
\* ends the loop with all_paths_exist = False.
AfterCityPath(routes, player_id, mission, c, found, path_routes) ==
    IF path_routes = <<>> THEN [all_paths_exist |-> FALSE, all_path_routes |-> found]
    ELSE AllPathRoutes(routes, player_id, mission, c + 1, Append(found, path_routes))

\* The loop `for start_city in mission.start_cities` of the multi-qubit
\* branch from the c-th city on.
AllPathRoutes(routes, player_id, mission, c, found) ==
    IF c > Len(mission.start_cities)
    THEN [all_paths_exist |-> TRUE, all_path_routes |-> found]
    ELSE AfterCityPath(routes, player_id, mission, c, found,
                       get_path_routes(routes, player_id, mission.start_cities[c],
                                       mission.target_city))

\* What one mission's check gave: whether an exception left it, whether a
\* simulation was run, on which routes, and what it returned.
Outcome(routes_used, r) ==
    IF r.raised
    THEN [raised |-> TRUE, simulated |-> TRUE, success |-> FALSE,
          routes |-> routes_used, gate_sequence |-> <<>>]
    ELSE [raised |-> FALSE, simulated |-> TRUE, success |-> r.success,
          routes |-> routes_used, gate_sequence |-> r.gate_sequence]

NotSimulated ==
    [raised |-> FALSE, simulated |-> FALSE, success |-> FALSE,
     routes |-> <<>>, gate_sequence |-> <<>>]

\* simulate_multi_qubit_path on the routes gathered for the mission.
SimulateClaimed(mission, player_routes) ==
    Outcome(player_routes,
            simulate_multi_qubit_path(mission.start_cities, mission.target_city,
                                      mission.initial_state, mission.target_state,
                                      player_routes))

\* The multi-qubit branch once the paths are gathered: `if not
\* all_paths_exist: continue`, else the simulation of the routes of all
\* paths, each route once.
MultiQubitMission(mission, paths) ==
    IF ~paths.all_paths_exist THEN NotSimulated
    ELSE SimulateClaimed(mission,
                         player_routes_for_mission(paths.all_path_routes,
                                                   Len(paths.all_path_routes)))

\* route_gates of the single-qubit branch: (claimed_with_gate, length) of
\* every route of the path; get_path_routes always sets claimed_with_gate.
route_gates_of(path_routes) ==
    [j \in 1..Len(path_routes) |->
        <<path_routes[j].claimed_with_gate, path_routes[j].length>>]

\* The single-qubit branch: `if path_routes:` and simulate_path.
SingleQubitMission(mission, path_routes) ==
    IF path_routes = <<>> THEN NotSimulated
    ELSE Outcome(path_routes,
                 simulate_path(mission.initial_state, route_gates_of(path_routes),
                               mission.target_state))

\* The body of `for mission in player.missions` for a mission that is not
\* completed yet.
MissionOutcome(routes, player_id, mission) ==
    IF Len(mission.start_cities) > 1
    THEN MultiQubitMission(mission,
                           AllPathRoutes(routes, player_id, mission, 1, <<>>))
    ELSE SingleQubitMission(mission,
                            get_path_routes(routes, player_id, mission.start_cities[1],
                                            mission.target_city))

RECURSIVE CheckMissions(_, _, _, _)

\* After the k-th mission's check gave r: an exception leaves the call
\* with what was written so far; a success sets mission.completed and adds
\* mission.points to player.score.  log keeps r next to the mission index.
AfterMission(routes, player_id, k, st, r) ==
    IF r.raised
    THEN [st EXCEPT !.raised = TRUE, !.log = Append(@, [mission |-> k, outcome |-> r])]
    ELSE IF r.success
    THEN CheckMissions(routes, player_id, k + 1,
                       [st EXCEPT !.missions[k].completed = TRUE,
                                  !.score = @ + st.missions[k].points,
                                  !.any_completed = TRUE,
                                  !.log = Append(@, [mission |-> k, outcome |-> r])])
    ELSE CheckMissions(routes, player_id, k + 1,
                       [st EXCEPT !.log = Append(@, [mission |-> k, outcome |-> r])])

\* The loop of check_mission_completion without the `continue` of lines
\* 456-459 for a completed mission.
CheckMissionsAgain(routes, player_id, k, st) ==
    IF k > Len(st.missions) \/ st.raised THEN st
    ELSE AfterMission(routes, player_id, k, st,
                      MissionOutcome(routes, player_id, st.missions[k]))

\* The loop `for mission in player.missions` from the k-th mission on.
CheckMissions(routes, player_id, k, st) ==
    IF k > Len(st.missions) \/ st.raised THEN st
    ELSE IF st.missions[k].completed THEN CheckMissions(routes, player_id, k + 1, st)
    ELSE AfterMission(routes, player_id, k, st,
                      MissionOutcome(routes, player_id, st.missions[k]))

\* The end of check_mission_completion: the win condition and the value
\* returned.
AfterMissions(game, player, st) ==
    IF st.raised
    THEN [raised |-> TRUE, game |-> game, log |-> st.log,
          player |-> [player EXCEPT !.missions = st.missions, !.score = st.score]]
    ELSE IF st.missions # <<>> /\ \A k \in 1..Len(st.missions) : st.missions[k].completed
    THEN [raised |-> FALSE, result |-> TRUE, log |-> st.log,
          game |-> [game EXCEPT !.winner = player.player_id, !.game_over = TRUE],
          player |-> [player EXCEPT !.missions = st.missions, !.score = st.score,
                                    !.has_won = TRUE]]
    ELSE [raised |-> FALSE, result |-> st.any_completed, log |-> st.log, game |-> game,
          player |-> [player EXCEPT !.missions = st.missions, !.score = st.score]]

\* GameState.check_mission_completion for game = [routes, game_over,
\* winner] and player = [player_id, missions, score, has_won]: the game
\* and the player after the call, the value returned unless it raised, and
\* the log of the simulations run.
check_mission_completion(game, player) ==
    AfterMissions(game, player,
                  CheckMissions(game.routes, player.player_id, 1,
                                [raised |-> FALSE, missions |-> player.missions,
                                 score |-> player.score, any_completed |-> FALSE,
                                 log |-> <<>>]))

(***************************************************************************)
(* GameState.initialize_missions.  The running state st of the call is     *)
(* [mission_deck, attempts, used_pairs, checks, done, raised]; checks is   *)
(* the record of every check_route_feasibility call made so far with what  *)
(* it was asked and whether it returned a non-empty list.  A key of        *)
(* used_pairs holds the sorted tuple of start cities as their set.  What   *)
(* `random` returns in one iteration is a draw [num_qubits, start_cities,  *)
(* target, special, target_state, selected].                               *)
(***************************************************************************)
\* The hard-coded mission of lines 107-112.
bell_mission ==
    MissionCard([is_list |-> TRUE, value |-> <<"Princeton", "GeorgiaTech">>],
                "U Chicago", "|00>", "|00> + |11>", 50, "hard")

UsedPair(start_cities, target, num_qubits) ==
    [start_cities |-> Range(start_cities), target |-> target,
     num_qubits |-> num_qubits]

\* The iteration of the loop taken while mission_deck is empty.
AddBellMission(st) ==
    IF bell_mission.raised THEN [st EXCEPT !.attempts = @ + 1]
    ELSE [st EXCEPT !.attempts = @ + 1,
                    !.mission_deck = Append(@, bell_mission.card),
                    !.used_pairs = @ \cup {UsedPair(<<"Princeton", "GeorgiaTech">>,
                                                    "U Chicago", 2)}]

\* num_qubits after `Ensure we allow the chosen complexity`.
AllowedQubits(cfg, num_qubits) ==
    IF num_qubits = 2 /\ ~cfg.allow_double THEN 1
    ELSE IF num_qubits = 3 /\ ~cfg.allow_triple
    THEN Min(IF cfg.allow_double THEN 2 ELSE 1, num_qubits)
    ELSE num_qubits

\* init_state by number of qubits.
init_state_of(num_qubits) == <<"|0>", "|00>", "|000>">>[num_qubits]

\* The pool target_state is chosen from: `special` is the outcome of the
\* random.random() test for superposition, entanglement or multipartite.
target_states_of(num_qubits, special) ==
    IF num_qubits = 1
    THEN IF special THEN {"|+>", "|->"} ELSE {"|0>", "|1>"}
    ELSE IF num_qubits = 2
    THEN IF special THEN {"|Bell+>", "|Bell->", "|Psi+>", "|Psi->"}
         ELSE {"|00>", "|01>", "|10>", "|11>"}
    ELSE IF special THEN {"|GHZ>", "|W>"}
         ELSE {"|000>", "|001>", "|010>", "|011>", "|100>", "|101>", "|110>", "|111>"}

difficulty_of(num_qubits, special) ==
    IF num_qubits = 1 THEN IF special THEN "medium" ELSE "easy"
    ELSE IF num_qubits = 2 THEN IF special THEN "hard" ELSE "medium"
    ELSE "hard"

\* int((base_points + points_per_step * path_length) * multiplier) for the
\* multipliers 1.0, 1.5 and 2.0.
points_of(cfg, path_length, difficulty) ==
    LET raw == cfg.base_points + cfg.points_per_step * path_length
    IN  IF difficulty = "easy" THEN raw
        ELSE IF difficulty = "medium" THEN (3 * raw) \div 2
        ELSE 2 * raw

\* len() of the shortest path among the witnesses of start_city, which has
\* at least one.
shortest_path_of(feasible_paths, start_city) ==
    LET lens == {Len(feasible_paths[i].path) :
                    i \in {j \in 1..Len(feasible_paths) :
                              feasible_paths[j].start_city = start_city}}
    IN  CHOOSE l \in lens : \A k \in lens : l <= k

RECURSIVE total_path_length(_, _, _)
\* The sum over the first n start cities; -1 once a start city has no
\* witness (all_paths_feasible = False).
total_path_length(feasible_paths, start_cities, n) ==
    IF n = 0 THEN 0
    ELSE IF total_path_length(feasible_paths, start_cities, n - 1) < 0 THEN 0 - 1
    ELSE IF \A j \in 1..Len(feasible_paths) :
                feasible_paths[j].start_city # start_cities[n]
    THEN 0 - 1
    ELSE total_path_length(feasible_paths, start_cities, n - 1)
             + shortest_path_of(feasible_paths, start_cities[n])

\* `try: mission = MissionCard(...); append; used_pairs.add(key)
\* except ValueError: continue`, built being what MissionCard gave.
AddMission(st, key, built) ==
    IF built.raised THEN st
    ELSE [st EXCEPT !.mission_deck = Append(@, built.card),
                    !.used_pairs = @ \cup {key}]

\* The iteration from `selected_path = random.choice(feasible_paths)` on.
AfterFeasible(st, cfg, draw, num_qubits, key, feasible_paths, selected_path) ==
    IF num_qubits > 1
    THEN IF total_path_length(feasible_paths, draw.start_cities, num_qubits) < 0
         THEN st
         ELSE AddMission(st, key,
                  MissionCard([is_list |-> TRUE, value |-> draw.start_cities],
                              draw.target, init_state_of(num_qubits),
                              draw.target_state,
                              points_of(cfg,
                                        total_path_length(feasible_paths,
                                                          draw.start_cities, num_qubits),
                                        difficulty_of(num_qubits, draw.special)),
                              difficulty_of(num_qubits, draw.special)))
    ELSE AddMission(st, key,
             MissionCard([is_list |-> TRUE, value |-> <<selected_path.start_city>>],
                         draw.target, init_state_of(num_qubits), draw.target_state,
                         points_of(cfg, Len(selected_path.path),
                                   difficulty_of(num_qubits, draw.special)),
                         difficulty_of(num_qubits, draw.special)))

\* The entry `checks` keeps of a check_route_feasibility call.
Checked(start_cities, target_city, initial_state, target_state, feasible) ==
    [start_cities |-> start_cities, target_city |-> target_city,
     initial_state |-> initial_state, target_state |-> target_state,
     feasible |-> feasible]

\* The iteration once check_route_feasibility gave r: an exception leaves
\* initialize_missions, an empty list skips the candidate.
AfterCheck(st, cfg, draw, num_qubits, key, r) ==
    IF r.raised THEN [st EXCEPT !.raised = TRUE]
    ELSE IF r.feasible_paths = <<>>
    THEN [st EXCEPT !.checks = @ \cup
             {Checked(draw.start_cities, draw.target, init_state_of(num_qubits),
                      draw.target_state, FALSE)}]
    ELSE AfterFeasible([st EXCEPT !.checks = @ \cup
                           {Checked(draw.start_cities, draw.target,
                                    init_state_of(num_qubits), draw.target_state, TRUE)}],
                       cfg, draw, num_qubits, key, r.feasible_paths,
                       r.feasible_paths[((draw.selected - 1) % Len(r.feasible_paths)) + 1])

\* A candidate whose key is in used_pairs going on to the feasibility
\* check all the same.
CandidateOfUsedKey(game, st, cfg, draw, num_qubits, r) ==
    IF Cardinality(game.cities) < num_qubits + 1 THEN st
    ELSE AfterCheck(st, cfg, draw, num_qubits,
                    UsedPair(draw.start_cities, draw.target, num_qubits), r)

\* The iteration for a drawn candidate, num_qubits being the allowed
\* complexity: the `continue`s for too few cities and for a used key,
\* then the feasibility check, r being what check_route_feasibility gives
\* for the candidate.
CandidateGiven(game, st, cfg, draw, num_qubits, r) ==
    IF Cardinality(game.cities) < num_qubits + 1 THEN st
    ELSE IF UsedPair(draw.start_cities, draw.target, num_qubits) \in st.used_pairs
    THEN st
    ELSE AfterCheck(st, cfg, draw, num_qubits,
                    UsedPair(draw.start_cities, draw.target, num_qubits), r)

\* The iteration for a drawn candidate with its call of
\* check_route_feasibility.
Candidate(game, st, cfg, draw, num_qubits) ==
    CandidateGiven(game, st, cfg, draw, num_qubits,
                   check_route_feasibility(draw.start_cities, draw.target,
                                           init_state_of(num_qubits),
                                           draw.target_state, game.routes))

\* One iteration of the while loop on the draw `draw`.
Attempt(game, st, cfg, draw) ==
    IF Len(st.mission_deck) = 0 THEN AddBellMission(st)
    ELSE Candidate(game, [st EXCEPT !.attempts = @ + 1], cfg, draw,
                   AllowedQubits(cfg, draw.num_qubits))

\* The loop condition.
MoreAttempts(st, cfg) ==
    /\ Len(st.mission_deck) < cfg.num_missions
    /\ st.attempts < cfg.num_missions * 20

\* The state before the loop.
BeforeAttempts ==
    [mission_deck |-> <<>>, attempts |-> 0, used_pairs |-> {}, checks |-> {},
     done |-> FALSE, raised |-> FALSE]

(***************************************************************************)
(* Calls of _find_all_paths                                                *)
(***************************************************************************)
\* For path enumeration only `from` and `to` of a route are read.
TopologyRoutes == {[from |-> f, to |-> t, gate |-> <<"I">>, length |-> 1] :
                       f \in Cities, t \in Cities}

\* City names are only ever compared for equality, so the start city is
\* fixed and the target ranges over every city, the start city included.
FindAllPathsArgs ==
    [start : {"A"}, target : Cities, routes : SeqsUpTo(TopologyRoutes, MaxRoutes),
     max_depth : MaxDepths]

InitPaths ==
    /\ op = "_find_all_paths"
    /\ args \in FindAllPathsArgs
    /\ ret = NoReturn

FindAllPaths ==
    /\ op = "_find_all_paths"
    /\ ret = NoReturn
    /\ ret' = [paths |-> _find_all_paths(args.start, args.target, args.routes,
                                         args.max_depth)]
    /\ UNCHANGED <<op, args>>

NextPaths == FindAllPaths

SpecPaths == InitPaths /\ [][NextPaths]_vars

Returned == ret # NoReturn

(***************************************************************************)
(* Calls of check_route_feasibility                                        *)
(***************************************************************************)
\* Longest route list given to check_route_feasibility.
MaxFeasRoutes == 2

\* Gate lists of a route: single gates, two identical gates, an unknown
\* label ('Y' is no gate of apply_gate) before a known one, two different
\* gates, three gates.
GateLists ==
    {<<"X">>, <<"H">>, <<"CNOT">>, <<"X", "X">>, <<"Y", "X">>, <<"I", "Z">>,
     <<"Z", "X", "I">>}

\* Route lengths; a length of 2 applies a route's gate twice.
Lengths == {1, 2}

\* (gate list, length) of a route: single-gate routes of either length,
\* the other routes of length 1.
GatesAndLengths ==
    {gl \in GateLists \X Lengths : Len(gl[1]) = 1 \/ gl[2] = 1}

\* The routes of the feasibility queries: a triangle on A, B, C.
FeasRoutes ==
    {[from |-> e[1], to |-> e[2], gate |-> gl[1], length |-> gl[2]] :
        e \in {<<"A", "B">>, <<"B", "C">>, <<"A", "C">>}, gl \in GatesAndLengths}

\* (initial_state, target_state) of the queries.
StatePairs == {<<"|0>", "|1>">>, <<"|0>", "|0>">>, <<"|00>", "|Bell+>">>}

StartCityLists == {<<"A">>, <<"C">>, <<"A", "B">>, <<"A", "C">>}

FeasibilityArgs ==
    [start_cities : StartCityLists, target_city : {"C"}, states : StatePairs,
     available_routes : SeqsUpTo(FeasRoutes, MaxFeasRoutes)]

InitFeas ==
    /\ op = "check_route_feasibility"
    /\ args \in FeasibilityArgs
    /\ ret = NoReturn

CheckRouteFeasibility ==
    /\ op = "check_route_feasibility"
    /\ ret = NoReturn
    /\ ret' = check_route_feasibility(args.start_cities, args.target_city,
                                      args.states[1], args.states[2],
                                      args.available_routes)
    /\ UNCHANGED <<op, args>>

NextFeas == CheckRouteFeasibility

SpecFeas == InitFeas /\ [][NextFeas]_vars

(***************************************************************************)
(* Calls of simulate_path                                                  *)
(***************************************************************************)
\* Longest path given to simulate_path, in edges.
MaxPathEdges == 3

\* Gate labels of the calls: the five apply_gate knows and 'Y', which it
\* does not.
KnownGates == {"I", "X", "Z", "H", "CNOT"}

GateLabels == KnownGates \cup {"Y"}

\* Route lengths of the calls.
RouteLengths == {1, 2, 3}

SimStatePairs == {<<"|0>", "|1>">>, <<"|0>", "|+>">>, <<"|00>", "|Bell+>">>}

SimulatePathArgs ==
    [states : SimStatePairs,
     route_gates : SeqsUpTo(GateLabels \X RouteLengths, MaxPathEdges)]

InitSim ==
    /\ op = "simulate_path"
    /\ args \in SimulatePathArgs
    /\ ret = NoReturn

SimulatePath ==
    /\ op = "simulate_path"
    /\ ret = NoReturn
    /\ ret' = simulate_path(args.states[1], args.route_gates, args.states[2])
    /\ UNCHANGED <<op, args>>

NextSim == SimulatePath

SpecSim == InitSim /\ [][NextSim]_vars

(***************************************************************************)
(* Calls of simulate_multi_qubit_path                                      *)
(***************************************************************************)
\* Longest list of claimed routes given to simulate_multi_qubit_path.
MaxPlayerRoutes == 3

\* Gate lists of the claimed routes; 'Y' is unknown to apply_gate.
PlayerGateLists ==
    {<<"X">>, <<"H">>, <<"CNOT">>, <<"Y", "X">>, <<"X", "Y">>, <<"H", "I">>,
     <<"Y", "H">>}

PlayerRoutes ==
    {[from |-> "A", to |-> "C", gate |-> g, length |-> l] :
        g \in PlayerGateLists, l \in {1, 2}}

MultiStatePairs ==
    {<<"|0>", "|1>">>, <<"|00>", "|Bell+>">>, <<"|00>", "|11>">>, <<"|000>", "|000>">>}

MultiStartCityLists == {<<"A">>, <<"A", "B">>, <<"A", "B", "D">>}

SimulateMultiArgs ==
    [start_cities : MultiStartCityLists, target_city : {"C"}, states : MultiStatePairs,
     player_routes : SeqsUpTo(PlayerRoutes, MaxPlayerRoutes)]

InitMulti ==
    /\ op = "simulate_multi_qubit_path"
    /\ args \in SimulateMultiArgs
    /\ ret = NoReturn

SimulateMultiQubitPath ==
    /\ op = "simulate_multi_qubit_path"
    /\ ret = NoReturn
    /\ ret' = simulate_multi_qubit_path(args.start_cities, args.target_city,
                                        args.states[1], args.states[2],
                                        args.player_routes)
    /\ UNCHANGED <<op, args>>

NextMulti == SimulateMultiQubitPath

SpecMulti == InitMulti /\ [][NextMulti]_vars

(***************************************************************************)
(* Calls of check_mission_completion                                       *)
(***************************************************************************)
\* Longest route list of the game.
MaxGameRoutes == 3

\* claimed_by of a route whose gates are pairwise different, owners[k]
\* owning the k-th gate: one item per gate, in the order of the gate list.
ClaimedBy(gates, owners) ==
    [k \in 1..Len(gates) |-> [gate |-> gates[k], is_list |-> FALSE,
                              owners |-> <<owners[k]>>]]

GameRoute(from, to, gates, length, owners) ==
    [from |-> from, to |-> to, gate |-> gates, length |-> length,
     claimed_by |-> ClaimedBy(gates, owners)]

\* The routes of the games: the edges of the Bell circuit, Princeton -
\* Carnegie with H alone or next to X, and a direct edge Princeton -
\* U Chicago; unclaimed, claimed by player_1, or by player_1 and player_2;
\* and Princeton - Carnegie with Z, claimed by player_1.
GameRoutes ==
    {GameRoute("Princeton", "Carnegie", <<"H">>, 1, <<o>>) : o \in {NoPlayer, "player_1"}}
    \cup {GameRoute("Princeton", "Carnegie", <<"Z">>, 1, <<"player_1">>)}
    \cup {GameRoute("Princeton", "Carnegie", <<"X", "H">>, 1, o) :
              o \in {<<NoPlayer, NoPlayer>>, <<"player_1", NoPlayer>>,
                     <<NoPlayer, "player_1">>, <<"player_1", "player_2">>,
                     <<"player_2", "player_1">>}}
    \cup {GameRoute("GeorgiaTech", "Carnegie", <<"I">>, 1, <<o>>) :
              o \in {NoPlayer, "player_1"}}
    \cup {GameRoute("Carnegie", "U Chicago", <<"CNOT">>, 1, <<o>>) :
              o \in {NoPlayer, "player_1", "player_2"}}
    \cup {GameRoute("U Chicago", "Carnegie", <<"CNOT">>, 1, <<"player_1">>)}
    \cup {GameRoute("Princeton", "U Chicago", <<"X">>, l, <<"player_1">>) : l \in {1, 2}}

Mission(start_cities, target_city, initial_state, target_state, points, completed) ==
    [start_cities |-> start_cities, target_city |-> target_city,
     initial_state |-> initial_state, target_state |-> target_state,
     points |-> points, completed |-> completed]

\* The Bell mission of the end-to-end scenario and a single-qubit mission.
BellMission ==
    Mission(<<"Princeton", "GeorgiaTech">>, "U Chicago", "|00>", "|Bell+>", 50, FALSE)

FlipMission == Mission(<<"Princeton">>, "U Chicago", "|0>", "|1>", 7, FALSE)

\* The mission initialize_missions puts first into every deck, as a
\* player holds it.
GuaranteedMission ==
    Mission(bell_mission.card.start_cities, bell_mission.card.target_city,
            bell_mission.card.initial_state, bell_mission.card.target_state,
            bell_mission.card.points, bell_mission.card.completed)

\* The missions a player holds.
MissionLists ==
    {<<>>, <<BellMission>>, <<FlipMission>>, <<BellMission, FlipMission>>,
     <<[FlipMission EXCEPT !.completed = TRUE], BellMission>>, <<GuaranteedMission>>}

CheckMissionArgs ==
    [game : [routes : SeqsUpTo(GameRoutes, MaxGameRoutes), game_over : {FALSE},
             winner : {NoPlayer}],
     player : [player_id : {"player_1"}, missions : MissionLists, score : {0},
               has_won : {FALSE}]]

InitMission ==
    /\ op = "check_mission_completion"
    /\ args \in CheckMissionArgs
    /\ ret = NoReturn

CheckMissionCompletion ==
    /\ op = "check_mission_completion"
    /\ ret = NoReturn
    /\ ret' = check_mission_completion(args.game, args.player)
    /\ UNCHANGED <<op, args>>

NextMission == CheckMissionCompletion

SpecMission == InitMission /\ [][NextMission]_vars

(***************************************************************************)
(* The life of one QiskitQuantumState: its construction, then calls of     *)
(* apply_gate.  args holds the constructor's arguments and the gates       *)
(* applied so far, ret what the last call left: the register, or Raise.    *)
(***************************************************************************)
\* Most calls of apply_gate on one register.
MaxGates == 4

\* The labels _prepare_initial_state has a branch for, by qubit count.
SingleQubitLabels == {"|0>", "|1>", "|+>", "|->"}

TwoQubitLabels ==
    {"|00>", "|01>", "|10>", "|11>", "|Bell+>", "|Bell->", "|Phi+>", "|Phi->",
     "|Psi+>", "|Psi->"}

ThreeQubitLabels ==
    {"|000>", "|001>", "|010>", "|011>", "|100>", "|101>", "|110>", "|111>",
     "|GHZ>", "|W>"}

CatalogLabels(num_qubits) ==
    IF num_qubits = 1 THEN SingleQubitLabels
    ELSE IF num_qubits = 2 THEN TwoQubitLabels
    ELSE IF num_qubits = 3 THEN ThreeQubitLabels
    ELSE {}

\* Labels given to the constructor: the catalog, and the target label of
\* the hard-coded Bell mission of initialize_missions, which no branch of
\* _prepare_initial_state names.
StateLabels ==
    SingleQubitLabels \cup TwoQubitLabels \cup ThreeQubitLabels
        \cup {"|00> + |11>"}

\* Qubit counts given to the constructor; it raises for 4.
QubitCounts == {1, 2, 3, 4}

InitRegister ==
    /\ op = "QiskitQuantumState"
    /\ args \in [initial_state : StateLabels, num_qubits : QubitCounts,
                 gates : {<<>>}]
    /\ ret = NoReturn

Construct ==
    /\ op = "QiskitQuantumState"
    /\ ret = NoReturn
    /\ ret' = QiskitQuantumState(args.initial_state, args.num_qubits)
    /\ UNCHANGED <<op, args>>

ApplyGate(gate_name) ==
    /\ ret # NoReturn
    /\ ~ret.raised
    /\ Len(args.gates) < MaxGates
    /\ op' = "apply_gate"
    /\ args' = [args EXCEPT !.gates = Append(@, gate_name)]
    /\ ret' = apply_gate(ret.state, gate_name)

NextRegister == Construct \/ \E gate_name \in GateLabels : ApplyGate(gate_name)

SpecRegister == InitRegister /\ [][NextRegister]_vars

(***************************************************************************)
(* Constructions of a MissionCard                                          *)
(***************************************************************************)
\* Most start cities given to MissionCard.
MaxStartCities == 3

\* What is given as start_cities: a list of up to MaxStartCities cities,
\* or one city that is not in a list.
StartCityArgs ==
    {[is_list |-> TRUE, value |-> s] : s \in SeqsUpTo({"A", "B", "D"}, MaxStartCities)}
        \cup {[is_list |-> FALSE, value |-> <<c>>] : c \in {"A", "B", "D"}}

\* State labels given to MissionCard: of 1, 2 and 3 qubits, and the target
\* label of the hard-coded Bell mission, which _count_qubits does not list.
CardLabels == {"|0>", "|+>", "|00>", "|Bell+>", "|000>", "|GHZ>", "|00> + |11>"}

MissionCardArgs ==
    [start_cities : StartCityArgs, target_city : {"C"},
     initial_state : CardLabels, target_state : CardLabels,
     points : {10}, difficulty : {"easy"}]

InitCard ==
    /\ op = "MissionCard"
    /\ args \in MissionCardArgs
    /\ ret = NoReturn

ConstructCard ==
    /\ op = "MissionCard"
    /\ ret = NoReturn
    /\ ret' = MissionCard(args.start_cities, args.target_city, args.initial_state,
                          args.target_state, args.points, args.difficulty)
    /\ UNCHANGED <<op, args>>

NextCard == ConstructCard

SpecCard == InitCard /\ [][NextCard]_vars

(***************************************************************************)
(* Runs of initialize_missions: ret holds the running state of the call.   *)
(***************************************************************************)
\* Most iterations of the while loop that are followed.
MaxAttempts == 2

\* Largest index random.choice(feasible_paths) is followed for.
MaxSelected == 2

Universities == {"Princeton", "GeorgiaTech", "Carnegie", "U Chicago"}

ConfigRoute(from, to, gates, length) ==
    [from |-> from, to |-> to, gate |-> gates, length |-> length]

\* The routes of the configuration: none, those of the Bell scenario, and
\* those with a direct X route beside them.
ConfigRouteLists ==
    {<<>>,
     <<ConfigRoute("Princeton", "Carnegie", <<"H">>, 1),
       ConfigRoute("GeorgiaTech", "Carnegie", <<"I">>, 1),
       ConfigRoute("Carnegie", "U Chicago", <<"CNOT">>, 1)>>,
     <<ConfigRoute("Princeton", "Carnegie", <<"H">>, 1),
       ConfigRoute("GeorgiaTech", "Carnegie", <<"I">>, 1),
       ConfigRoute("Carnegie", "U Chicago", <<"CNOT">>, 1),
       ConfigRoute("Princeton", "U Chicago", <<"X", "H">>, 1)>>}

\* mission_cfg: the defaults of lines 70-76 for points, small decks.
MissionConfigs ==
    [num_missions : {0, 1, 2}, allow_double : BOOLEAN,
     allow_triple : BOOLEAN, points_per_step : {2}, base_points : {5}]

InitializeMissionsArgs ==
    [game : [routes : ConfigRouteLists,
             cities : {Universities, {"Princeton", "U Chicago"}}],
     cfg : MissionConfigs]

\* random.sample(cities, n): n different cities in some order.
Samples(cities, n) ==
    {s \in [1..n -> cities] : \A i, j \in 1..n : i # j => s[i] # s[j]}

\* What random can return in an iteration that ends up with num_qubits
\* qubits; with too few cities nothing is drawn after num_qubits.
Draws(cities, drawn, num_qubits) ==
    IF Cardinality(cities) < num_qubits + 1
    THEN {[num_qubits |-> drawn, start_cities |-> <<>>, target |-> NoCity,
           special |-> FALSE, target_state |-> "", selected |-> 1]}
    ELSE {[num_qubits |-> drawn, start_cities |-> s, target |-> t,
           special |-> b, target_state |-> ts, selected |-> k] :
             s \in Samples(cities, num_qubits), t \in cities, b \in BOOLEAN,
             ts \in {"|0>", "|1>", "|+>", "|->", "|00>", "|01>", "|10>", "|11>",
                     "|Bell+>", "|Bell->", "|Psi+>", "|Psi->", "|000>", "|001>",
                     "|010>", "|011>", "|100>", "|101>", "|110>", "|111>",
                     "|GHZ>", "|W>"},
             k \in 1..MaxSelected}

InitDeck ==
    /\ op = "initialize_missions"
    /\ args \in InitializeMissionsArgs
    /\ ret = BeforeAttempts

\* One iteration of the while loop.
NextAttempt ==
    /\ op = "initialize_missions"
    /\ ~ret.done
    /\ ~ret.raised
    /\ MoreAttempts(ret, args.cfg)
    /\ ret.attempts < MaxAttempts
    /\ \E drawn \in {1, 2, 3} :
           \E draw \in Draws(args.game.cities, drawn, AllowedQubits(args.cfg, drawn)) :
               /\ draw.start_cities # <<>> =>
                      /\ draw.target \notin Range(draw.start_cities)
                      /\ draw.target_state \in
                             target_states_of(AllowedQubits(args.cfg, drawn), draw.special)
               /\ ret' = Attempt(args.game, ret, args.cfg, draw)
    /\ UNCHANGED <<op, args>>

\* random.shuffle(self.mission_deck) after the loop.
Shuffle ==
    /\ op = "initialize_missions"
    /\ ~ret.done
    /\ ~ret.raised
    /\ ~MoreAttempts(ret, args.cfg)
    /\ \E p \in Samples(1..Len(ret.mission_deck), Len(ret.mission_deck)) :
           ret' = [ret EXCEPT !.mission_deck = [i \in 1..Len(@) |-> @[p[i]]],
                              !.done = TRUE]
    /\ UNCHANGED <<op, args>>

NextDeck == NextAttempt \/ Shuffle

SpecDeck == InitDeck /\ [][NextDeck]_vars

(***************************************************************************)
(* Calls that are handed the route list.  ret holds, besides the value of  *)
(* the call, the caller's route dicts as the call left them.  The four     *)
(* methods of the simulator hold no statement that stores into a route     *)
(* dict or into a list or dict a route holds, so they leave args.routes;   *)
(* get_path_routes stores into the copies it makes.                        *)
(***************************************************************************)
\* Longest route list handed to a method of the simulator here.
MaxFrameRoutes == 2

\* route_gates as the callers build it: the first gate of every route.
route_gates_from(routes) ==
    [j \in 1..Len(routes) |-> <<routes[j].gate[1], routes[j].length>>]

FrameArgs(operation) ==
    CASE operation = "_find_all_paths" ->
            [start : {"A"}, target : Cities,
             routes : SeqsUpTo(TopologyRoutes, MaxFrameRoutes),
             max_depth : {DefaultMaxDepth}]
      [] operation = "check_route_feasibility" ->
            [start_cities : StartCityLists, target_city : {"C"}, states : StatePairs,
             routes : SeqsUpTo(FeasRoutes, MaxFrameRoutes - 1)]
      [] operation = "simulate_path" ->
            [states : SimStatePairs, routes : SeqsUpTo(FeasRoutes, MaxFrameRoutes - 1)]
      [] operation = "simulate_multi_qubit_path" ->
            [start_cities : MultiStartCityLists, target_city : {"C"},
             states : MultiStatePairs,
             routes : SeqsUpTo(PlayerRoutes, MaxFrameRoutes)]
      [] operation = "get_path_routes" ->
            [routes : SeqsUpTo(GameRoutes, MaxGameRoutes),
             player_id : {"player_1", "player_2"},
             start : {"Princeton", "GeorgiaTech"},
             target : {"U Chicago", "Princeton"}]

InitFrame ==
    /\ op \in {"_find_all_paths", "check_route_feasibility", "simulate_path",
               "simulate_multi_qubit_path", "get_path_routes"}
    /\ args \in FrameArgs(op)
    /\ ret = NoReturn

FrameFindAllPaths ==
    /\ op = "_find_all_paths"
    /\ ret = NoReturn
    /\ ret' = [routes |-> args.routes,
               value |-> _find_all_paths(args.start, args.target, args.routes,
                                         args.max_depth)]
    /\ UNCHANGED <<op, args>>

FrameCheckRouteFeasibility ==
    /\ op = "check_route_feasibility"
    /\ ret = NoReturn
    /\ ret' = [routes |-> args.routes,
               value |-> check_route_feasibility(args.start_cities, args.target_city,
                                                 args.states[1], args.states[2],
                                                 args.routes)]
    /\ UNCHANGED <<op, args>>

FrameSimulatePath ==
    /\ op = "simulate_path"
    /\ ret = NoReturn
    /\ ret' = [routes |-> args.routes,
               value |-> simulate_path(args.states[1], route_gates_from(args.routes),
                                       args.states[2])]
    /\ UNCHANGED <<op, args>>

FrameSimulateMultiQubitPath ==
    /\ op = "simulate_multi_qubit_path"
    /\ ret = NoReturn
    /\ ret' = [routes |-> args.routes,
               value |-> simulate_multi_qubit_path(args.start_cities, args.target_city,
                                                   args.states[1], args.states[2],
                                                   args.routes)]
    /\ UNCHANGED <<op, args>>

\* After get_path_routes gave r: self.routes are the first objects of the
\* heap, the value the objects the path refers to.
PathRoutesReturn(num_routes, r) ==
    [routes |-> SubSeq(r.heap, 1, num_routes),
     value |-> [j \in 1..Len(r.path) |-> r.heap[r.path[j]]],
     path |-> r.path]

FrameGetPathRoutes ==
    /\ op = "get_path_routes"
    /\ ret = NoReturn
    /\ ret' = PathRoutesReturn(Len(args.routes),
                               get_path_routes_on_heap(args.routes, args.player_id,
                                                       args.start, args.target))
    /\ UNCHANGED <<op, args>>

NextFrame ==
    \/ FrameFindAllPaths
    \/ FrameCheckRouteFeasibility
    \/ FrameSimulatePath
    \/ FrameSimulateMultiQubitPath
    \/ FrameGetPathRoutes

SpecFrame == InitFrame /\ [][NextFrame]_vars

(***************************************************************************)
(* GameState: claiming routes, turns and the end of the game               *)
(* (src/src/ket_to_ride/game/game_state.py, player.py).  A game is         *)
(* [routes, players, current_player_index, turn_number, game_over, winner, *)
(* deck, discard_pile]: players is the list of players, each [player_id,   *)
(* hand, claimed_routes, missions, score, has_won]; deck and discard_pile  *)
(* are the numbers of cards they hold.  A route carries claimed_by_is_dict *)
(* next to claimed_by: when it is FALSE the route's claimed_by is None     *)
(* (the old format before any claim) and claimed_by is the empty sequence; *)
(* when TRUE claimed_by lists the dict's items in insertion order.         *)
(* route_idx and gate_index count from 0 as in the source; None for        *)
(* selected_gate is NoGate and None for gate_index is NoIndex.  A route id *)
(* is kept as its parts [from, to, gate, index], index being NoIndex for   *)
(* the three-part form; the city names of the model hold no '-', so        *)
(* these are the parts route_id.split('-') gives back.  The gate labels    *)
(* of the routes are values of GateType.                                   *)
(***************************************************************************)
\* class GateType
GateTypes == {"I", "X", "Z", "H", "CNOT"}

\* gate_index = None.
NoIndex == -1

\* Player.can_claim_route
Player_can_claim_route(player, gate_type, length) == player.hand[gate_type] >= length

\* Player.claim_route: what it returned and the player after it.
Player_claim_route(player, gate_type, length, route_id) ==
    IF ~Player_can_claim_route(player, gate_type, length)
    THEN [result |-> FALSE, player |-> player]
    ELSE [result |-> TRUE,
          player |-> [player EXCEPT !.hand[gate_type] = @ - length,
                                    !.claimed_routes = Append(@, route_id)]]

\* The item of a gate whose value is None.
NoneItem(gate) == [gate |-> gate, is_list |-> FALSE, owners |-> <<NoPlayer>>]

\* `value is None` for the value of a dict item.
IsNone(item) == ~item.is_list /\ item.owners[1] = NoPlayer

HasKey(claimed_by, gate) == \E k \in 1..Len(claimed_by) : claimed_by[k].gate = gate

KeyOf(claimed_by, gate) == CHOOSE k \in 1..Len(claimed_by) : claimed_by[k].gate = gate

\* claimed_by.get(gate), as an item: None when the key is missing.
dict_get(claimed_by, gate) ==
    IF HasKey(claimed_by, gate) THEN claimed_by[KeyOf(claimed_by, gate)]
    ELSE NoneItem(gate)

\* claimed_by[item.gate] = the item's value: an existing key keeps its
\* place, a new key goes last.
dict_set(claimed_by, item) ==
    IF HasKey(claimed_by, item.gate)
    THEN [claimed_by EXCEPT ![KeyOf(claimed_by, item.gate)] = item]
    ELSE Append(claimed_by, item)

\* gates.count(gate)
count(gates, gate) == Cardinality({k \in 1..Len(gates) : gates[k] = gate})

\* gates.index(gate) for a gate of the list.
index(gates, gate) ==
    (CHOOSE k \in 1..Len(gates) :
        gates[k] = gate /\ \A j \in 1..(k - 1) : gates[j] # gate) - 1

\* The availability test of can_claim_route for a selected gate, lines
\* 333-353, gate_claimed being claimed_by.get(selected_gate): FALSE where
\* the code returns False.
gate_available(gate_claimed, gate_index) ==
    IF gate_claimed.is_list
    THEN IF gate_index # NoIndex /\ gate_index < Len(gate_claimed.owners)
         THEN gate_claimed.owners[gate_index + 1] = NoPlayer
         ELSE \E j \in 1..Len(gate_claimed.owners) : gate_claimed.owners[j] = NoPlayer
    ELSE gate_claimed.owners[1] = NoPlayer

\* The loop `for gate in gates` at the end of can_claim_route: some gate
\* with a free instance that the player can pay.
some_unclaimed_affordable(route, player) ==
    \E k \in 1..Len(route.gate) :
        /\ \E j \in 1..Len(dict_get(route.claimed_by, route.gate[k]).owners) :
               dict_get(route.claimed_by, route.gate[k]).owners[j] = NoPlayer
        /\ Player_can_claim_route(player, route.gate[k], route.length)

\* The body of can_claim_route for a route of the list.
can_claim(route, player, selected_gate, gate_index) ==
    IF ~route.claimed_by_is_dict THEN TRUE
    ELSE IF selected_gate # NoGate
    THEN /\ selected_gate \in Range(route.gate)
         /\ gate_available(dict_get(route.claimed_by, selected_gate), gate_index)
         /\ Player_can_claim_route(player, selected_gate, route.length)
    ELSE some_unclaimed_affordable(route, player)

\* GameState.can_claim_route
can_claim_route(game, player, route_idx, selected_gate, gate_index) ==
    IF route_idx >= Len(game.routes) THEN FALSE
    ELSE can_claim(game.routes[route_idx + 1], player, selected_gate, gate_index)

\* The loop of lines 387-398 from the k-th gate on: the first gate whose
\* dict value is None (or any gate of an old-format route) that the player
\* can pay; a gate whose value is a list of instances is passed over.
RECURSIVE first_affordable_unclaimed(_, _, _)
first_affordable_unclaimed(route, player, k) ==
    IF k > Len(route.gate) THEN NoGate
    ELSE IF /\ route.claimed_by_is_dict => IsNone(dict_get(route.claimed_by, route.gate[k]))
            /\ Player_can_claim_route(player, route.gate[k], route.length)
    THEN route.gate[k]
    ELSE first_affordable_unclaimed(route, player, k + 1)

\* route_id of lines 414-420.
route_id_of(route, selected_gate, gate_index) ==
    [from |-> route.from, to |-> route.to, gate |-> selected_gate,
     index |-> IF count(route.gate, selected_gate) > 1 THEN gate_index ELSE NoIndex]

\* Lines 424-428: a route in the old format gets a dict with None for
\* every gate, from the k-th gate on.
RECURSIVE none_for_every_gate(_, _, _)
none_for_every_gate(gates, k, claimed_by) ==
    IF k > Len(gates) THEN claimed_by
    ELSE none_for_every_gate(gates, k + 1, dict_set(claimed_by, NoneItem(gates[k])))

\* route['claimed_by'] when line 431 is reached.
new_format(route) ==
    IF route.claimed_by_is_dict THEN route.claimed_by
    ELSE none_for_every_gate(route.gate, 1, <<>>)

\* Lines 433-434: the list of instances is created unless there is one.
instance_list(claimed_by, gates, selected_gate) ==
    IF dict_get(claimed_by, selected_gate).is_list THEN claimed_by
    ELSE dict_set(claimed_by,
                  [gate |-> selected_gate, is_list |-> TRUE,
                   owners |-> [j \in 1..count(gates, selected_gate) |-> NoPlayer]])

\* The game with route['claimed_by'] written.
WithClaimedBy(game, route_idx, claimed_by) ==
    [game EXCEPT !.routes[route_idx + 1].claimed_by = claimed_by,
                 !.routes[route_idx + 1].claimed_by_is_dict = TRUE]

\* What a call left: the game, whether an exception left the call, and
\* the value returned as Python prints it.
CallReturned(game, result) == [game |-> game, raised |-> FALSE, result |-> result]

CallRaised(game) == [game |-> game, raised |-> TRUE, result |-> "None"]

\* GameState.add_route_scoring
add_route_scoring(player, route_length) ==
    [player EXCEPT !.score = @ + (CASE route_length = 1 -> 1
                                    [] route_length = 2 -> 2
                                    [] route_length = 3 -> 4
                                    [] route_length = 4 -> 7
                                    [] route_length = 5 -> 10
                                    [] route_length = 6 -> 15
                                    [] OTHER -> route_length)]

\* The end of claim_route, r being what check_mission_completion gave for
\* the p-th player: its exception leaves claim_route, else True.
AfterCompletionCheck(p, r) ==
    IF r.raised THEN CallRaised([r.game EXCEPT !.players[p] = r.player])
    ELSE CallReturned([r.game EXCEPT !.players[p] = r.player], "True")

\* Lines 442-446, the owner being recorded: add_route_scoring, then
\* check_mission_completion.
AfterOwner(game, p, player) ==
    AfterCompletionCheck(p, check_mission_completion([game EXCEPT !.players[p] = player],
                                                     player))

\* Line 437: the write into the list of instances at gate_index, an
\* IndexError when the list is not that long.
MarkInstance(game, p, route_idx, selected_gate, gate_index, claimed_by) ==
    IF gate_index >= Len(dict_get(claimed_by, selected_gate).owners)
    THEN CallRaised(WithClaimedBy(game, route_idx, claimed_by))
    ELSE AfterOwner(WithClaimedBy(game, route_idx,
                                  dict_set(claimed_by,
                                           [dict_get(claimed_by, selected_gate)
                                                EXCEPT !.owners[gate_index + 1] =
                                                           game.players[p].player_id])),
                    p,
                    add_route_scoring(game.players[p],
                                      game.routes[route_idx + 1].length))

\* Lines 431-440, claimed_by being route['claimed_by'] in the new format.
RecordOwner(game, p, route_idx, selected_gate, gate_index, claimed_by) ==
    IF count(game.routes[route_idx + 1].gate, selected_gate) > 1
    THEN MarkInstance(game, p, route_idx, selected_gate, gate_index,
                      instance_list(claimed_by, game.routes[route_idx + 1].gate,
                                    selected_gate))
    ELSE AfterOwner(WithClaimedBy(game, route_idx,
                                  dict_set(claimed_by,
                                           [gate |-> selected_gate, is_list |-> FALSE,
                                            owners |-> <<game.players[p].player_id>>])),
                    p,
                    add_route_scoring(game.players[p],
                                      game.routes[route_idx + 1].length))

\* Line 422 on, r being what Player.claim_route gave.
AfterPlayerClaim(game, p, route_idx, selected_gate, gate_index, r) ==
    IF ~r.result THEN CallReturned(game, "False")
    ELSE RecordOwner([game EXCEPT !.players[p] = r.player], p, route_idx,
                     selected_gate, gate_index, new_format(game.routes[route_idx + 1]))

\* Lines 412-422 for the gate and the index settled.
ClaimInstance(game, p, route_idx, selected_gate, gate_index) ==
    AfterPlayerClaim(game, p, route_idx, selected_gate, gate_index,
                     Player_claim_route(game.players[p], selected_gate,
                                        game.routes[route_idx + 1].length,
                                        route_id_of(game.routes[route_idx + 1],
                                                    selected_gate, gate_index)))

\* Lines 400-410 for the gate selected, given or found.
ClaimSelected(game, p, route_idx, selected_gate, gate_index) ==
    IF selected_gate = NoGate \/ selected_gate \notin Range(game.routes[route_idx + 1].gate)
    THEN CallReturned(game, "False")
    ELSE IF gate_index # NoIndex
    THEN IF \/ gate_index >= Len(game.routes[route_idx + 1].gate)
            \/ game.routes[route_idx + 1].gate[gate_index + 1] # selected_gate
         THEN CallReturned(game, "False")
         ELSE ClaimInstance(game, p, route_idx, selected_gate, gate_index)
    ELSE ClaimInstance(game, p, route_idx, selected_gate,
                       index(game.routes[route_idx + 1].gate, selected_gate))

\* GameState.claim_route for the p-th player of the game.  The call of
\* can_claim_route at line 373 passes no gate_index.
claim_route(game, p, route_idx, selected_gate, gate_index) ==
    IF ~can_claim_route(game, game.players[p], route_idx, selected_gate, NoIndex)
    THEN CallReturned(game, "False")
    ELSE ClaimSelected(game, p, route_idx,
                       IF selected_gate = NoGate
                       THEN first_affordable_unclaimed(game.routes[route_idx + 1],
                                                       game.players[p], 1)
                       ELSE selected_gate,
                       gate_index)

\* The inner loop of end_game_by_points from the k-th route on: the length
\* of the first route joining the first two parts of route_id, 0 when
\* there is none.
RECURSIVE length_of_claimed(_, _, _)
length_of_claimed(routes, route_id, k) ==
    IF k > Len(routes) THEN 0
    ELSE IF \/ routes[k].from = route_id.from /\ routes[k].to = route_id.to
            \/ routes[k].from = route_id.to /\ routes[k].to = route_id.from
    THEN routes[k].length
    ELSE length_of_claimed(routes, route_id, k + 1)

\* route_points of end_game_by_points, from the k-th claimed route on.
RECURSIVE route_points_of(_, _, _)
route_points_of(routes, claimed_routes, k) ==
    IF k > Len(claimed_routes) THEN 0
    ELSE length_of_claimed(routes, claimed_routes[k], 1)
         + route_points_of(routes, claimed_routes, k + 1)

\* mission_points of end_game_by_points, from the k-th mission on.
RECURSIVE mission_points_of(_, _)
mission_points_of(missions, k) ==
    IF k > Len(missions) THEN 0
    ELSE (IF missions[k].completed THEN missions[k].points
          ELSE 0 - (missions[k].points \div 2))
         + mission_points_of(missions, k + 1)

\* The loop `for player in self.players` of end_game_by_points.
final_scores(game) ==
    [game EXCEPT !.players =
        [p \in 1..Len(game.players) |->
            [game.players[p] EXCEPT !.score =
                route_points_of(game.routes, game.players[p].claimed_routes, 1)
                + mission_points_of(game.players[p].missions, 1)]]]

\* max(self.players, key=lambda p: p.score): the first player of the
\* highest score.
max_by_score(players) ==
    CHOOSE w \in 1..Len(players) :
        /\ \A j \in 1..Len(players) : players[j].score <= players[w].score
        /\ \A j \in 1..(w - 1) : players[j].score < players[w].score

\* Lines 696-697 for the w-th player.
declare_winner(game, w) ==
    [game EXCEPT !.winner = game.players[w].player_id, !.players[w].has_won = TRUE]

\* GameState.end_game_by_points for a game with players.
end_game_by_points(game) ==
    declare_winner(final_scores([game EXCEPT !.game_over = TRUE]),
                   max_by_score(final_scores(game).players))

\* The fourth condition of check_game_end_conditions, the current player
\* being the one the call started with.
six_routes_claimed(game) ==
    IF Len(game.players[game.current_player_index + 1].claimed_routes) >= 6
    THEN end_game_by_points(game)
    ELSE game

\* GameState.check_game_end_conditions for a game with players.
check_game_end_conditions(game) ==
    six_routes_claimed(IF game.deck = 0 /\ game.discard_pile = 0
                       THEN end_game_by_points(game)
                       ELSE game)

\* A next_turn that passes the turn whether or not the game is over.
next_turn_after_game_over(game) ==
    [game EXCEPT
        !.current_player_index = (@ + 1) % Len(game.players),
        !.turn_number = IF (game.current_player_index + 1) % Len(game.players) = 0
                        THEN @ + 1 ELSE @]

\* Lines 629-632 of next_turn.
switch_turn(game) ==
    IF game.game_over THEN game
    ELSE [game EXCEPT
             !.current_player_index = (@ + 1) % Len(game.players),
             !.turn_number = IF (game.current_player_index + 1) % Len(game.players) = 0
                             THEN @ + 1 ELSE @]

\* GameState.next_turn
next_turn(game) ==
    IF game.game_over THEN game
    ELSE switch_turn(check_game_end_conditions(game))

\* GameState.draw_cards: the piles after `count` rounds of the loop.
RECURSIVE draw_cards(_, _)
draw_cards(game, n) ==
    IF n = 0 THEN game
    ELSE IF game.deck = 0 /\ game.discard_pile > 0
    THEN draw_cards([game EXCEPT !.deck = game.discard_pile - 1, !.discard_pile = 0],
                    n - 1)
    ELSE IF game.deck > 0 THEN draw_cards([game EXCEPT !.deck = @ - 1], n - 1)
    ELSE draw_cards(game, n - 1)

(***************************************************************************)
(* A game in play: calls of claim_route, check_mission_completion,         *)
(* next_turn and draw_cards on one GameState, in any order.  op and args   *)
(* hold the last call, ret the game it left and what it returned.          *)
(***************************************************************************)
\* Highest turn_number from which next_turn is still called.
MaxTurns == 1

\* Cards of the deck at the start.
MaxDeck == 1

\* A route as load_config reads it: claimed_by null, or a dict with None
\* for every gate.
BoardRoute(from, to, gates, length, is_dict) ==
    [from |-> from, to |-> to, gate |-> gates, length |-> length,
     claimed_by_is_dict |-> is_dict,
     claimed_by |-> IF is_dict THEN none_for_every_gate(gates, 1, <<>>) ELSE <<>>]

\* A single-qubit mission one claim completes on the board of repeated
\* gates.
CarnegieMission == Mission(<<"Princeton">>, "Carnegie", "|0>", "|1>", 7, FALSE)

\* Player.__init__ with the cards and missions handed out.
NewPlayer(player_id, hand, missions) ==
    [player_id |-> player_id, hand |-> hand, claimed_routes |-> <<>>,
     missions |-> missions, score |-> 0, has_won |-> FALSE]

\* A hand of x cards of X, no card of Z and one card of every other gate.
Hand(x) == [g \in GateTypes |-> CASE g = "X" -> x [] g = "Z" -> 0 [] OTHER -> 1]

\* GameState.__init__ and add_player twice on a list of routes, the
\* missions handed out.
NewGame(routes, missions_1, missions_2) ==
    [routes |-> routes,
     players |-> <<NewPlayer("player_1", Hand(3), missions_1),
                   NewPlayer("player_2", Hand(1), missions_2)>>,
     current_player_index |-> 0, turn_number |-> 1, game_over |-> FALSE,
     winner |-> NoPlayer, deck |-> MaxDeck, discard_pile |-> 0]

\* The games: one on a board of repeated gates, Princeton - Carnegie
\* offering X twice and Carnegie - U Chicago offering X, H, X at length 2;
\* one on the edges of the Bell circuit.
NewGames ==
    {NewGame(<<BoardRoute("Princeton", "Carnegie", <<"X", "X">>, 1, d),
               BoardRoute("Carnegie", "U Chicago", <<"X", "H", "X">>, 2, d)>>,
             <<CarnegieMission, FlipMission>>, <<CarnegieMission>>) : d \in BOOLEAN}
    \cup {NewGame(<<BoardRoute("Princeton", "Carnegie", <<"H">>, 1, d),
                    BoardRoute("GeorgiaTech", "Carnegie", <<"I">>, 1, d),
                    BoardRoute("Carnegie", "U Chicago", <<"CNOT">>, 1, d)>>,
                  <<BellMission>>, <<>>) : d \in BOOLEAN}

InitGame ==
    /\ op = "GameState"
    /\ args = <<>>
    /\ ret \in {CallReturned(g, "None") : g \in NewGames}

\* The gates and indices a call of claim_route on the route may name: the
\* route's gates, a gate it does not offer, None; the positions of its
\* gate list, one past them, None.
GatesToSelect(game, route_idx) ==
    IF route_idx >= Len(game.routes) THEN {NoGate, "X"}
    ELSE {NoGate, "Z"} \cup Range(game.routes[route_idx + 1].gate)

IndicesToSelect(game, route_idx) ==
    IF route_idx >= Len(game.routes) THEN {NoIndex}
    ELSE {NoIndex} \cup 0..Len(game.routes[route_idx + 1].gate)

\* A call of check_mission_completion for the p-th player, r being what
\* it gave: the value returned is any_completed, or True on a win.
CompletionReturned(p, r) ==
    IF r.raised THEN CallRaised([r.game EXCEPT !.players[p] = r.player])
    ELSE CallReturned([r.game EXCEPT !.players[p] = r.player],
                      IF r.result THEN "True" ELSE "False")

ClaimRoute ==
    /\ ~ret.raised
    /\ \E p \in 1..Len(ret.game.players), route_idx \in 0..Len(ret.game.routes) :
         \E selected_gate \in GatesToSelect(ret.game, route_idx),
            gate_index \in IndicesToSelect(ret.game, route_idx) :
           /\ op' = "claim_route"
           /\ args' = [player |-> p, route_idx |-> route_idx,
                       selected_gate |-> selected_gate, gate_index |-> gate_index]
           /\ ret' = claim_route(ret.game, p, route_idx, selected_gate, gate_index)

CheckCompletion ==
    /\ ~ret.raised
    /\ \E p \in 1..Len(ret.game.players) :
           /\ op' = "check_mission_completion"
           /\ args' = [player |-> p]
           /\ ret' = CompletionReturned(p, check_mission_completion(ret.game,
                                                                    ret.game.players[p]))

NextTurn ==
    /\ ~ret.raised
    /\ ret.game.turn_number <= MaxTurns
    /\ op' = "next_turn"
    /\ args' = <<>>
    /\ ret' = CallReturned(next_turn(ret.game), "None")

DrawCards ==
    /\ ~ret.raised
    /\ op' = "draw_cards"
    /\ args' = <<>>
    /\ ret' = CallReturned(draw_cards(ret.game, 2), "cards")

NextGame ==
    \/ ClaimRoute
    \/ CheckCompletion
    \/ NextTurn
    \/ DrawCards

SpecGame == InitGame /\ [][NextGame]_vars

(***************************************************************************)
(* What the claims about _find_all_paths speak of, stated over the graph   *)
(* and not over the search.                                                *)
(***************************************************************************)
\* Route r joins cities c and d, in either direction.
Joins(r, c, d) == {r.from, r.to} = {c, d}

\* The sequences of pairwise different cities.
SimpleCitySeqs ==
    UNION {{cs \in [1..k -> Cities] : \A i, j \in 1..k : cs[i] = cs[j] => i = j} :
               k \in 1..Cardinality(Cities)}

RECURSIVE Product(_)
\* The sequences that take their i-th element from the i-th set.
Product(sets) ==
    IF sets = <<>> THEN {<<>>}
    ELSE {<<x>> \o rest : x \in Head(sets), rest \in Product(Tail(sets))}

\* The paths (sequences of route indices) that follow the cities cs.
PathsAlong(cs, routes) ==
    Product([j \in 1..(Len(cs) - 1) |->
                {i \in 1..Len(routes) : Joins(routes[i], cs[j], cs[j + 1])}])

\* Every simple path of at most max_depth edges from start to target.
SimplePaths(start, target, routes, max_depth) ==
    UNION {PathsAlong(cs, routes) :
               cs \in {c \in SimpleCitySeqs : /\ c[1] = start
                                             /\ c[Len(c)] = target
                                             /\ Len(c) - 1 <= max_depth}}

\* Path p visits the cities cs: one more city than routes, from start to
\* target, each route joining the cities before and after it.
Visits(p, cs, start, target, routes) ==
    /\ cs[1] = start
    /\ cs[Len(p) + 1] = target
    /\ \A j \in 1..Len(p) : Joins(routes[p[j]], cs[j], cs[j + 1])

PathsReturned == op = "_find_all_paths" /\ Returned

\* C1: every path _find_all_paths returns is simple (it visits pairwise
\* different cities, so it uses no route twice and no self-loop route),
\* its consecutive routes share an endpoint, and it has at most max_depth
\* edges.
C1_PathsSimpleAndBounded ==
    PathsReturned =>
        \A k \in 1..Len(ret.paths) :
            LET p == ret.paths[k]
            IN  /\ Len(p) <= args.max_depth
                /\ \E cs \in [1..(Len(p) + 1) -> Cities] :
                       /\ Visits(p, cs, args.start, args.target, args.routes)
                       /\ \A i, j \in 1..(Len(p) + 1) : cs[i] = cs[j] => i = j
                /\ \A i, j \in 1..Len(p) : p[i] = p[j] => i = j
                /\ \A i \in 1..Len(p) : args.routes[p[i]].from # args.routes[p[i]].to
                /\ \A i \in 1..(Len(p) - 1) :
                       {args.routes[p[i]].from, args.routes[p[i]].to}
                           \cap {args.routes[p[i + 1]].from, args.routes[p[i + 1]].to} # {}

\* A path as long as max_depth allows is returned from a route list that
\* also holds a self-loop at the start city.
C1_Witness ==
    /\ PathsReturned
    /\ args.start # args.target
    /\ \E k \in 1..Len(ret.paths) : Len(ret.paths[k]) = 2 /\ args.max_depth = 2
    /\ \E i \in 1..Len(args.routes) :
           args.routes[i].from = args.start /\ args.routes[i].to = args.start

\* C2: for start # target, _find_all_paths returns every simple path of at
\* most max_depth edges between start and target, parallel route entries
\* giving different paths, each exactly once; between disconnected cities
\* it returns the empty list.
C2_PathsExhaustive ==
    (PathsReturned /\ args.start # args.target) =>
        /\ Range(ret.paths) =
               SimplePaths(args.start, args.target, args.routes, args.max_depth)
        /\ Cardinality(Range(ret.paths)) = Len(ret.paths)
        /\ (\A cs \in SimpleCitySeqs :
                (cs[1] = args.start /\ cs[Len(cs)] = args.target)
                    => PathsAlong(cs, args.routes) = {})
               => ret.paths = <<>>

\* Two parallel routes give two paths, and a third path goes around them.
C2_Witness ==
    /\ PathsReturned
    /\ args.start # args.target
    /\ Len(ret.paths) = 3
    /\ \E i, j \in 1..Len(args.routes) :
           /\ i # j
           /\ args.routes[i] = args.routes[j]
           /\ <<i>> \in Range(ret.paths)
           /\ <<j>> \in Range(ret.paths)

\* C3 as claimed: for every start and target, start = target included,
\* every returned path is non-empty and its last route touches the target.
C3_Claimed ==
    PathsReturned =>
        \A k \in 1..Len(ret.paths) :
            LET p == ret.paths[k]
            IN  /\ p # <<>>
                /\ args.target \in {args.routes[p[Len(p)]].from, args.routes[p[Len(p)]].to}

\* C3 as amended: for start # target every returned path is non-empty and
\* its last route touches the target; for start = target the result is the
\* list holding the empty path alone.
C3_PathsEndAtTarget ==
    PathsReturned =>
        /\ args.start # args.target =>
               \A k \in 1..Len(ret.paths) :
                   LET p == ret.paths[k]
                   IN  /\ p # <<>>
                       /\ args.target \in
                              {args.routes[p[Len(p)]].from, args.routes[p[Len(p)]].to}
        /\ args.start = args.target => ret.paths = << <<>> >>

\* Both cases happen: a call with start = target on a graph that has a
\* cycle through the start city, and a call with start # target that
\* returns a path.
C3_Witness ==
    /\ PathsReturned
    /\ args.start = args.target
    /\ Len(args.routes) = 3
    /\ \A i \in 1..3 : args.routes[i].from # args.routes[i].to
    /\ \E i, j \in 1..3 : args.routes[i].from = args.start /\ args.routes[j].to = args.start
                           /\ i # j
                           /\ args.routes[i].to # args.routes[j].from
(***************************************************************************)
(* What the claims about check_route_feasibility speak of.  A gate         *)
(* assignment of a path is named by the tuple t of positions chosen in its *)
(* routes' gate lists; Cartesian-product order is the lexicographic order  *)
(* of these tuples.                                                        *)
(***************************************************************************)
FeasReturned == op = "check_route_feasibility" /\ Returned

\* Every tuple of positions in the gate lists of path p's routes.
IndexTuples(p, routes) ==
    Product([j \in 1..Len(p) |-> 1..Len(routes[p[j]].gate)])

\* The (gate, length) pairs tuple t chooses on path p.
Assignment(p, t, routes) ==
    [j \in 1..Len(p) |-> <<routes[p[j]].gate[t[j]], routes[p[j]].length>>]

\* simulate_path reports success for assignment t of path p.
Passes(p, t) ==
    LET r == simulate_path(args.states[1], Assignment(p, t, args.available_routes),
                           args.states[2])
    IN  IF r.raised THEN FALSE ELSE r.success

\* simulate_path raises for assignment t of path p.
Raises(p, t) ==
    simulate_path(args.states[1], Assignment(p, t, args.available_routes),
                  args.states[2]).raised

LexLess(t, u) ==
    \E j \in 1..Len(t) : t[j] < u[j] /\ \A i \in 1..(j - 1) : t[i] = u[i]

\* The position of tuple t of path p in Cartesian-product order, from 1.
Rank(p, t) ==
    1 + Cardinality({u \in IndexTuples(p, args.available_routes) : LexLess(u, t)})

\* The tuple of path p at position n of Cartesian-product order.
TupleAt(p, n) ==
    CHOOSE t \in IndexTuples(p, args.available_routes) : Rank(p, t) = n

\* The tuples of path p that pass, and the first of them.
Passing(p) == {t \in IndexTuples(p, args.available_routes) : Passes(p, t)}

FirstPassing(p) == CHOOSE t \in Passing(p) : \A u \in Passing(p) : ~LexLess(u, t)

RECURSIVE NumCombinations(_, _)
\* c1 * c2 * ... * cn for the gate-list lengths of the first n routes of p.
NumCombinations(p, n) ==
    IF n = 0 THEN 1
    ELSE Len(args.available_routes[p[n]].gate) * NumCombinations(p, n - 1)

\* The simulate_path calls made for path p of the c-th start city, and the
\* witnesses returned for it.
CallsFor(c, p) == SelectSeq(ret.calls, LAMBDA call : call.city = c /\ call.path = p)

WitnessesFor(city, p) ==
    SelectSeq(ret.feasible_paths, LAMBDA w : w.start_city = city /\ w.path = p)

\* The paths the search enumerates for a start city.
EnumeratedPaths(city) ==
    _find_all_paths(city, args.target_city, args.available_routes, DefaultMaxDepth)

\* The city has a path to the target with a gate assignment that passes.
CityHasWitness(city) ==
    \E p \in SimplePaths(city, args.target_city, args.available_routes, DefaultMaxDepth) :
        p # <<>> /\ Passing(p) # {}

\* C4: with more than one start city, check_route_feasibility returns a
\* non-empty list only if every start city has a path to the target with a
\* gate assignment that passes simulate_path; if some start city has none,
\* the result is empty, with no witness for the cities that did pass.
C4_AllStartCitiesFeasible ==
    (FeasReturned /\ Len(args.start_cities) > 1) =>
        /\ ret.feasible_paths # <<>> =>
               /\ \A city \in Range(args.start_cities) : CityHasWitness(city)
               /\ {ret.feasible_paths[i].start_city : i \in 1..Len(ret.feasible_paths)}
                      = Range(args.start_cities)
        /\ (\E city \in Range(args.start_cities) : ~CityHasWitness(city))
               => ret.feasible_paths = <<>>

\* The first start city passed, the second did not, nothing is returned.
C4_Witness ==
    /\ FeasReturned
    /\ Len(args.start_cities) > 1
    /\ CityHasWitness(args.start_cities[1])
    /\ ~CityHasWitness(args.start_cities[2])
    /\ \E i \in 1..Len(ret.calls) : ret.calls[i].outcome = "success"
    /\ ret.feasible_paths = <<>>

\* C5: for a single start city there is at most one witness per enumerated
\* path, it is the first gate combination in Cartesian-product order that
\* passes simulate_path, the combinations after it on that path are not
\* simulated, and every later path is still searched.
C5_FirstWitnessPerPath ==
    (FeasReturned /\ Len(args.start_cities) = 1) =>
        LET city == args.start_cities[1]
            paths == EnumeratedPaths(city)
        IN  \A k \in 1..Len(paths) :
                LET p == paths[k]
                    calls == CallsFor(1, p)
                    found == WitnessesFor(city, p)
                IN  p # <<>> =>
                        /\ Len(found) <= 1
                        /\ calls # <<>>
                        /\ \A i \in 1..Len(calls) :
                               calls[i].gate_combination =
                                   Assignment(p, TupleAt(p, i), args.available_routes)
                        /\ Passing(p) = {} => found = <<>>
                        /\ Passing(p) # {} =>
                               /\ Len(found) = 1
                               /\ found[1].gate_combination =
                                      Assignment(p, FirstPassing(p), args.available_routes)
                               /\ Len(calls) = Rank(p, FirstPassing(p))

\* A path whose first passing combination is neither the first nor the
\* last of its combinations, followed by another path with a witness.
C5_Witness ==
    /\ FeasReturned
    /\ Len(args.start_cities) = 1
    /\ Len(ret.feasible_paths) = 2
    /\ LET p == ret.feasible_paths[1].path
       IN  /\ Rank(p, FirstPassing(p)) > 1
           /\ Rank(p, FirstPassing(p)) < NumCombinations(p, Len(p))

\* C6 as claimed: on a path where no combination matches, exactly
\* c1 * ... * cn combinations are simulated and their gate sequences are
\* pairwise distinct, also when a route lists one gate label twice.
C6_Claimed ==
    (FeasReturned /\ Len(args.start_cities) = 1) =>
        LET paths == EnumeratedPaths(args.start_cities[1])
        IN  \A k \in 1..Len(paths) :
                LET p == paths[k]
                    calls == CallsFor(1, p)
                IN  (p # <<>> /\ Passing(p) = {}) =>
                        /\ Len(calls) = NumCombinations(p, Len(p))
                        /\ \A i, j \in 1..Len(calls) :
                               i # j =>
                                   BuildGateSequence(calls[i].gate_combination, Len(p))
                                       # BuildGateSequence(calls[j].gate_combination, Len(p))

\* No route of path p lists one gate label twice.
NoRepeatedLabel(p) ==
    \A j \in 1..Len(p) :
        LET gates == args.available_routes[p[j]].gate
        IN  \A a, b \in 1..Len(gates) : gates[a] = gates[b] => a = b

\* C6 as amended: on a path where no combination matches, exactly
\* c1 * ... * cn combinations are simulated, one per tuple of positions in
\* the routes' gate lists; their gate sequences are pairwise distinct when
\* no route of the path lists a gate label twice.
C6_AllCombinationsTried ==
    (FeasReturned /\ Len(args.start_cities) = 1) =>
        LET paths == EnumeratedPaths(args.start_cities[1])
        IN  \A k \in 1..Len(paths) :
                LET p == paths[k]
                    calls == CallsFor(1, p)
                IN  (p # <<>> /\ Passing(p) = {}) =>
                        /\ Len(calls) = NumCombinations(p, Len(p))
                        /\ \A t \in IndexTuples(p, args.available_routes) :
                               calls[Rank(p, t)].gate_combination =
                                   Assignment(p, t, args.available_routes)
                        /\ NoRepeatedLabel(p) =>
                               \A i, j \in 1..Len(calls) :
                                   i # j =>
                                       BuildGateSequence(calls[i].gate_combination, Len(p))
                                           # BuildGateSequence(calls[j].gate_combination, Len(p))

\* A two-route path with two gates on each route and no match: four
\* combinations are simulated.
C6_Witness ==
    /\ FeasReturned
    /\ Len(args.start_cities) = 1
    /\ \E p \in Range(EnumeratedPaths(args.start_cities[1])) :
           /\ Len(p) = 2
           /\ Passing(p) = {}
           /\ NoRepeatedLabel(p)
           /\ Len(CallsFor(1, p)) = 4

\* C8: a gate combination with a label apply_gate does not know is a
\* failed combination of check_route_feasibility: no error leaves the call,
\* the next combination of the path is simulated, and a path with a passing
\* combination still gets its witness (single start city) or still makes
\* its city feasible (several start cities).
C8_UnknownGateSkipped ==
    FeasReturned =>
        /\ ~ret.raised
        /\ \A i \in 1..Len(ret.calls) :
               LET call == ret.calls[i]
               IN  (call.outcome = "raised"
                        /\ call.n < NumCombinations(call.path, Len(call.path))) =>
                       /\ i < Len(ret.calls)
                       /\ ret.calls[i + 1].city = call.city
                       /\ ret.calls[i + 1].path = call.path
                       /\ ret.calls[i + 1].n = call.n + 1
        /\ Len(args.start_cities) = 1 =>
               \A p \in Range(EnumeratedPaths(args.start_cities[1])) :
                   (p # <<>> /\ Passing(p) # {}) =>
                       WitnessesFor(args.start_cities[1], p) # <<>>
        /\ (Len(args.start_cities) > 1
                /\ \A city \in Range(args.start_cities) : CityHasWitness(city))
               => Len(ret.feasible_paths) = Cardinality(Range(args.start_cities))

\* A combination with the unknown label 'Y' raised, and a later
\* combination of the same path was returned as the witness.
C8_Witness ==
    /\ FeasReturned
    /\ \E i \in 1..Len(ret.calls) :
           /\ ret.calls[i].outcome = "raised"
           /\ \E j \in 1..Len(ret.calls[i].gate_combination) :
                  ret.calls[i].gate_combination[j][1] = "Y"
           /\ \E k \in 1..Len(ret.feasible_paths) :
                  /\ ret.feasible_paths[k].path = ret.calls[i].path
                  /\ Rank(ret.calls[i].path, FirstPassing(ret.calls[i].path))
                         > ret.calls[i].n

(***************************************************************************)
(* What the claim about simulate_path speaks of.                           *)
(***************************************************************************)
SimReturned == op = "simulate_path" /\ Returned

RECURSIVE TotalLength(_, _)
\* The sum of the lengths of the first n edges.
TotalLength(route_gates, n) ==
    IF n = 0 THEN 0 ELSE route_gates[n][2] + TotalLength(route_gates, n - 1)

\* The edge that covers position k of the flat sequence.
EdgeAt(route_gates, k) ==
    CHOOSE j \in 1..Len(route_gates) :
        TotalLength(route_gates, j - 1) < k /\ k <= TotalLength(route_gates, j)

\* The flat sequence the claim describes: position k holds the gate of the
\* edge covering it.
FlatSequence(route_gates) ==
    [k \in 1..TotalLength(route_gates, Len(route_gates)) |->
        route_gates[EdgeAt(route_gates, k)][1]]

\* The instruction apply_gate appends for a known gate on n qubits.
InstrOf(gate_name, n) ==
    apply_gate([num_qubits |-> n, circuit |-> <<>>], gate_name).state.circuit[1]

\* C7: simulate_path returns the flat sequence that repeats each edge's
\* gate `length` times in path order, of total length the sum of the edge
\* lengths, and the register it returns holds, after the preparation of
\* the initial state, one instruction per gate of that sequence in that
\* order; the call raises exactly when the sequence has an unknown label.
C7_FlatGateSequence ==
    SimReturned =>
        LET flat == FlatSequence(args.route_gates)
            n == Max(_infer_num_qubits(args.states[1]), _infer_num_qubits(args.states[2]))
            prep == PrepCircuit(args.states[1], n)
        IN  /\ ret.raised <=> \E k \in 1..Len(flat) : flat[k] \notin KnownGates
            /\ ~ret.raised =>
                   /\ ret.gate_sequence = flat
                   /\ Len(ret.gate_sequence)
                          = TotalLength(args.route_gates, Len(args.route_gates))
                   /\ Len(ret.final_state.circuit) = Len(prep) + Len(flat)
                   /\ SubSeq(ret.final_state.circuit, 1, Len(prep)) = prep
                   /\ \A k \in 1..Len(flat) :
                          ret.final_state.circuit[Len(prep) + k] = InstrOf(flat[k], n)

\* A path of three edges with three different gates, the middle one of
\* length 3, was simulated on two qubits.
C7_Witness ==
    /\ SimReturned
    /\ ~ret.raised
    /\ Len(args.route_gates) = 3
    /\ args.route_gates[2][2] = 3
    /\ args.route_gates[1][2] = 2
    /\ Cardinality({args.route_gates[j][1] : j \in 1..3}) = 3
    /\ ret.final_state.num_qubits = 2
    /\ Len(ret.gate_sequence) > 5

(***************************************************************************)
(* What the claims about simulate_multi_qubit_path speak of.               *)
(***************************************************************************)
MultiReturned == op = "simulate_multi_qubit_path" /\ Returned

\* The gate combinations of the claimed routes, in Cartesian-product order.
GateCombos == itertools_product(gate_options_of(args.player_routes))

\* The register after the gates of a combination were applied, in order,
\* to a fresh register in the initial state.
RegisterAfter(gate_combo) ==
    RunGates(QiskitQuantumState(args.states[1], Len(args.start_cities)), gate_combo)

\* The combination has a label apply_gate does not know.
HasUnknownGate(gate_combo) ==
    \E j \in 1..Len(gate_combo) : gate_combo[j] \notin KnownGates

\* The combination's register satisfies matches_target(target_state).
ComboMatches(gate_combo) ==
    /\ ~HasUnknownGate(gate_combo)
    /\ matches_target(RegisterAfter(gate_combo).state, args.states[2])

\* C9 as claimed: a claimed route with an unknown gate label makes only
\* its combinations non-matches: no exception leaves
\* simulate_multi_qubit_path, and the combinations after it are still
\* tried, so a later matching combination is returned.
C9_Claimed ==
    (MultiReturned /\ \E n \in 1..Len(GateCombos) : HasUnknownGate(GateCombos[n])) =>
        /\ ~ret.raised
        /\ (\E n \in 1..Len(GateCombos) : ComboMatches(GateCombos[n])) => ret.success

\* C10 as claimed: success is True exactly when some combination of the
\* Cartesian product matches the target; the first such combination and
\* its register are returned; with no match the call returns False, a
\* fresh register in the initial state and the empty sequence.
C10_Claimed ==
    MultiReturned =>
        /\ ~ret.raised
        /\ ret.success <=> \E n \in 1..Len(GateCombos) : ComboMatches(GateCombos[n])
        /\ ret.success =>
               \E n \in 1..Len(GateCombos) :
                   /\ ComboMatches(GateCombos[n])
                   /\ \A m \in 1..(n - 1) : ~ComboMatches(GateCombos[m])
                   /\ ret.gate_sequence = GateCombos[n]
                   /\ ret.final_state = RegisterAfter(GateCombos[n]).state
        /\ ~ret.success =>
               /\ ret.gate_sequence = <<>>
               /\ ret.final_state =
                      QiskitQuantumState(args.states[1], Len(args.start_cities)).state

(***************************************************************************)
(* What the claims about check_mission_completion speak of.                *)
(***************************************************************************)
MissionReturned == op = "check_mission_completion" /\ Returned

\* The log entries of multi-qubit missions whose simulation succeeded.
MultiSuccesses ==
    {i \in 1..Len(ret.log) :
        /\ ret.log[i].outcome.success
        /\ Len(args.player.missions[ret.log[i].mission].start_cities) > 1}

\* C11 as claimed: whenever check_mission_completion completes a
\* multi-qubit mission, every gate of the gate sequence that succeeded is
\* the gate under which the player claimed the route it comes from; a gate
\* option the player did not claim never contributes.
C11_Claimed ==
    MissionReturned =>
        \A i \in MultiSuccesses :
            LET outcome == ret.log[i].outcome
            IN  /\ Len(outcome.gate_sequence) = Len(outcome.routes)
                /\ \A j \in 1..Len(outcome.routes) :
                       outcome.gate_sequence[j] = outcome.routes[j].claimed_with_gate

\* The gate under which player_1 holds a route, or NoGate.
ClaimedGate(route) == player_claimed_gate(route.claimed_by, "player_1", 1)

\* Route `route` joins cities c and d and player_1 holds it under gate g.
Holds(route, c, d, g) == Joins(route, c, d) /\ ClaimedGate(route) = g

\* The end-to-end Bell scenario: the routes player_1 has claimed are
\* Princeton - Carnegie under H, GeorgiaTech - Carnegie under I and
\* Carnegie - U Chicago under CNOT, each of length 1, and no others.
BellScenario ==
    /\ op = "check_mission_completion"
    /\ LET routes == args.game.routes
       IN  /\ \E i \in 1..Len(routes) : Holds(routes[i], "Princeton", "Carnegie", "H")
           /\ \E i \in 1..Len(routes) : Holds(routes[i], "GeorgiaTech", "Carnegie", "I")
           /\ \E i \in 1..Len(routes) : Holds(routes[i], "Carnegie", "U Chicago", "CNOT")
           /\ \A i \in 1..Len(routes) :
                  ClaimedGate(routes[i]) # NoGate =>
                      /\ routes[i].length = 1
                      /\ \/ Holds(routes[i], "Princeton", "Carnegie", "H")
                         \/ Holds(routes[i], "GeorgiaTech", "Carnegie", "I")
                         \/ Holds(routes[i], "Carnegie", "U Chicago", "CNOT")

\* The positions of the Bell mission, not yet completed, in the player's
\* missions.
BellMissions == {k \in 1..Len(args.player.missions) : args.player.missions[k] = BellMission}

\* C12: in the end-to-end Bell scenario the simulation of the three
\* claimed routes succeeds, and check_mission_completion marks the Bell
\* mission completed, adds its points to the player's score and returns
\* True.
C12_BellScenarioCompletes ==
    (MissionReturned /\ BellScenario) =>
        /\ ~ret.raised
        /\ \A k \in BellMissions :
               /\ ret.player.missions[k].completed
               /\ \E i \in 1..Len(ret.log) :
                      /\ ret.log[i].mission = k
                      /\ ret.log[i].outcome.success
               /\ ret.player.score = args.player.score + BellMission.points
               /\ ret.result

\* The scenario happened with the Bell mission in hand, on a Princeton -
\* Carnegie route that also offers X.
C12_Witness ==
    /\ MissionReturned
    /\ BellScenario
    /\ BellMissions # {}
    /\ \E i \in 1..Len(args.game.routes) : Len(args.game.routes[i].gate) = 2
    /\ ret.player.score = 50

(***************************************************************************)
(* What the claims about one register speak of.                            *)
(***************************************************************************)
\* A register exists: the constructor and every apply_gate so far returned.
RegisterLives == ret # NoReturn /\ ~ret.raised

\* The register was prepared as `initial_state` on num_qubits qubits and
\* exactly the gates of gate_sequence were applied to it, in order.
RegisterAfterGates(initial_state, num_qubits, gate_sequence) ==
    /\ op \in {"QiskitQuantumState", "apply_gate"}
    /\ RegisterLives
    /\ args.initial_state = initial_state
    /\ args.num_qubits = num_qubits
    /\ args.gates = gate_sequence

\* The state vector is (|00> + |11>) / sqrt 2: equal non-zero amplitudes
\* on indices 0 and 3, none on 1 and 2.
IsBellPlus(sv) ==
    /\ sv.amp[0] = sv.amp[3]
    /\ sv.amp[0] # ZZero
    /\ sv.amp[1] = ZZero
    /\ sv.amp[2] = ZZero

\* C13: a 2-qubit register prepared in |00> to which H then CNOT were
\* applied holds (|00> + |11>) / sqrt 2, matches the target |Bell+> and
\* does not match |00>; and simulate_path from |00> along an H edge and a
\* CNOT edge of length 1 to the target |Bell+> returns success = True.
C13_BellWitness ==
    RegisterAfterGates("|00>", 2, <<"H", "CNOT">>) =>
        /\ IsBellPlus(get_statevector(ret.state))
        /\ matches_target(ret.state, "|Bell+>")
        /\ ~matches_target(ret.state, "|00>")
        /\ LET r == simulate_path("|00>", <<<<"H", 1>>, <<"CNOT", 1>>>>, "|Bell+>")
           IN  ~r.raised /\ r.success /\ r.final_state = ret.state

\* H then CNOT were applied to a register prepared in |00>, and it matches
\* |Bell+>.
C13_Witness ==
    /\ RegisterAfterGates("|00>", 2, <<"H", "CNOT">>)
    /\ matches_target(ret.state, "|Bell+>")

\* The state vector is (|00> - |11>) / sqrt 2.
IsBellMinus(sv) ==
    /\ sv.amp[0] = ZNeg(sv.amp[3])
    /\ sv.amp[0] # ZZero
    /\ sv.amp[1] = ZZero
    /\ sv.amp[2] = ZZero

\* Two state vectors give every basis state the same probability.
SameProbabilities(sv1, sv2) ==
    /\ sv1.k = sv2.k
    /\ sv1.m = sv2.m
    /\ \A i \in DOMAIN sv1.amp :
           ZMul(sv1.amp[i], sv1.amp[i]) = ZMul(sv2.amp[i], sv2.amp[i])

\* A 2-qubit register prepared in a catalog state, to which catalog gates
\* were applied.
TwoQubitRegister ==
    /\ op \in {"QiskitQuantumState", "apply_gate"}
    /\ RegisterLives
    /\ args.num_qubits = 2
    /\ args.initial_state \in TwoQubitLabels

\* C14: matches_target is phase-aware.  No 2-qubit register reached from a
\* catalog state by catalog gates matches both |Bell+> and |Bell->; a
\* register holding (|00> + |11>) / sqrt 2 matches |Bell+> and not |Bell->,
\* one holding (|00> - |11>) / sqrt 2 matches |Bell-> and not |Bell+>,
\* although the two vectors give every basis state the same probability.
C14_PhaseAware ==
    TwoQubitRegister =>
        /\ ~(matches_target(ret.state, "|Bell+>") /\ matches_target(ret.state, "|Bell->"))
        /\ IsBellPlus(get_statevector(ret.state)) =>
               /\ matches_target(ret.state, "|Bell+>")
               /\ ~matches_target(ret.state, "|Bell->")
        /\ IsBellMinus(get_statevector(ret.state)) =>
               /\ matches_target(ret.state, "|Bell->")
               /\ ~matches_target(ret.state, "|Bell+>")
        /\ (IsBellPlus(get_statevector(ret.state)) \/ IsBellMinus(get_statevector(ret.state))) =>
               /\ SameProbabilities(get_statevector(ret.state),
                                    get_statevector(QiskitQuantumState("|Bell+>", 2).state))
               /\ SameProbabilities(get_statevector(ret.state),
                                    get_statevector(QiskitQuantumState("|Bell->", 2).state))

\* A register prepared as |Bell+> was turned by gates into one that holds
\* (|00> - |11>) / sqrt 2 and matches |Bell-> only.
C14_Witness ==
    /\ TwoQubitRegister
    /\ args.initial_state = "|Bell+>"
    /\ args.gates # <<>>
    /\ IsBellMinus(get_statevector(ret.state))
    /\ matches_target(ret.state, "|Bell->")
    /\ ~matches_target(ret.state, "|Bell+>")

\* C15 as claimed: constructing a register with a label that is not in the
\* catalog for the given qubit count raises; no register is returned.
C15_Claimed ==
    (/\ op = "QiskitQuantumState"
     /\ ret # NoReturn
     /\ args.initial_state \notin CatalogLabels(args.num_qubits)) => ret.raised

(***************************************************************************)
(* What the claim about MissionCard speaks of.                             *)
(***************************************************************************)
CardReturned == op = "MissionCard" /\ Returned

\* The qubit count implied by the card's initial and target states.
ImpliedQubits ==
    Max(_count_qubits(args.initial_state), _count_qubits(args.target_state))

\* C16 as claimed: constructing a MissionCard succeeds if and only if the
\* number of start cities equals the qubit count implied by its initial
\* and target states; with fewer or with more start cities it raises.
C16_Claimed ==
    CardReturned =>
        (~ret.raised <=> Len(start_cities_of(args.start_cities)) = ImpliedQubits)

(***************************************************************************)
(* What the claim about initialize_missions speaks of.                     *)
(***************************************************************************)
\* check_route_feasibility was called with the mission's own start cities,
\* target city and states, and returned a non-empty list.
ProvenFeasible(mission) ==
    Checked(mission.start_cities, mission.target_city, mission.initial_state,
            mission.target_state, TRUE) \in ret.checks

\* C17 as claimed: every mission initialize_missions has placed in
\* mission_deck was first passed to check_route_feasibility with its own
\* start cities, target city, initial state and target state and received
\* a non-empty witness list.
C17_Claimed ==
    op = "initialize_missions" =>
        \A i \in 1..Len(ret.mission_deck) : ProvenFeasible(ret.mission_deck[i])

\* apply_gate has just returned a register.
GateApplied == op = "apply_gate" /\ RegisterLives

\* The gate of the last apply_gate call, and the register it was called on.
LastGate == args.gates[Len(args.gates)]

RegisterBefore ==
    simulate_circuit(args.initial_state, SubSeq(args.gates, 1, Len(args.gates) - 1),
                     args.num_qubits).state

RECURSIVE TimesSqrt2Pow(_, _)
\* x * sqrt(2)^e
TimesSqrt2Pow(x, e) == IF e = 0 THEN x ELSE TimesSqrt2Pow(ZTimesSqrt2(x), e - 1)

\* Two state vectors are the same vector, whatever common factor their
\* numerators and denominators carry.
SameVector(sv1, sv2) ==
    /\ sv1.m = sv2.m
    /\ DOMAIN sv1.amp = DOMAIN sv2.amp
    /\ \A i \in DOMAIN sv1.amp :
           TimesSqrt2Pow(sv1.amp[i], Max(sv1.k, sv2.k) - sv1.k)
               = TimesSqrt2Pow(sv2.amp[i], Max(sv1.k, sv2.k) - sv2.k)

\* The basis state that differs from i in qubit 0 only.
Partner0(i) == IF i % 2 = 0 THEN i + 1 ELSE i - 1

\* The image of basis state i under CNOT with control qubit 0 and target
\* qubit 1: qubit 1 is flipped when qubit 0 is set.
CnotImage(i) ==
    IF i % 2 = 0 THEN i
    ELSE IF (i \div 2) % 2 = 0 THEN i + 2 ELSE i - 2

\* What the claim says a gate does to the state vector sv of a register of
\* num_qubits qubits.
ClaimedEffect(gate_name, sv, num_qubits) ==
    CASE gate_name = "I" -> sv
      [] gate_name = "X" ->
            [sv EXCEPT !.amp = [i \in DOMAIN sv.amp |-> sv.amp[Partner0(i)]]]
      [] gate_name = "Z" ->
            [sv EXCEPT !.amp = [i \in DOMAIN sv.amp |->
                IF i % 2 = 1 THEN ZNeg(sv.amp[i]) ELSE sv.amp[i]]]
      [] gate_name = "H" ->
            [sv EXCEPT !.k = @ + 1,
                       !.amp = [i \in DOMAIN sv.amp |->
                           IF i % 2 = 0 THEN ZAdd(sv.amp[i], sv.amp[i + 1])
                           ELSE ZSub(sv.amp[i - 1], sv.amp[i])]]
      [] gate_name = "CNOT" ->
            IF num_qubits = 1 THEN sv
            ELSE [sv EXCEPT !.amp = [i \in DOMAIN sv.amp |-> sv.amp[CnotImage(i)]]]

\* C18: apply_gate('CNOT') on a register of 2 or 3 qubits acts with qubit 0
\* as control and qubit 1 as target, on a 1-qubit register it returns
\* without raising and leaves the state vector unchanged; I, X, Z and H act
\* on qubit 0 only, whatever the number of qubits.
C18_GateTargets ==
    /\ GateApplied =>
           SameVector(get_statevector(ret.state),
                      ClaimedEffect(LastGate, get_statevector(RegisterBefore),
                                    args.num_qubits))
    /\ (op = "apply_gate" /\ LastGate \in KnownGates) => ~ret.raised

\* CNOT was applied to a 3-qubit register and changed its state vector.
C18_Witness ==
    /\ GateApplied
    /\ LastGate = "CNOT"
    /\ args.num_qubits = 3
    /\ ~SameVector(get_statevector(ret.state), get_statevector(RegisterBefore))

(***************************************************************************)
(* What the claim about the route graph speaks of.                         *)
(***************************************************************************)
FrameReturned ==
    /\ op \in {"_find_all_paths", "check_route_feasibility", "simulate_path",
               "simulate_multi_qubit_path", "get_path_routes"}
    /\ Returned
    /\ "routes" \in DOMAIN ret

\* Route dict `after` has the values of `before` under the keys the spec
\* names; claimed_by is compared where the route has it.
SameRoute(before, after) ==
    /\ after.from = before.from
    /\ after.to = before.to
    /\ after.gate = before.gate
    /\ after.length = before.length
    /\ "claimed_by" \in DOMAIN before => after.claimed_by = before.claimed_by

\* C19: after a call of check_route_feasibility, _find_all_paths,
\* simulate_path, simulate_multi_qubit_path or get_path_routes the caller's
\* route list holds as many route dicts as before, each with the same
\* from, to, gate, length and claimed_by; the routes get_path_routes
\* returns are new objects carrying claimed_with_gate, and they are the
\* copies of the routes of the path it found.
C19_RoutesUntouched ==
    FrameReturned =>
        /\ Len(ret.routes) = Len(args.routes)
        /\ \A i \in 1..Len(args.routes) : SameRoute(args.routes[i], ret.routes[i])
        /\ op = "get_path_routes" =>
               /\ \A i \in 1..Len(ret.routes) : ret.routes[i].claimed_with_gate = NoGate
               /\ \A j \in 1..Len(ret.path) : ret.path[j] > Len(args.routes)
               /\ ret.value = get_path_routes(args.routes, args.player_id,
                                              args.start, args.target)

\* get_path_routes returned a path of two routes, of which it made copies.
C19_Witness ==
    /\ FrameReturned
    /\ op = "get_path_routes"
    /\ Len(ret.value) = 2
    /\ \E i \in 1..Len(args.routes) : Len(args.routes[i].gate) = 2

\* The sum of the squared numerators of a state vector of real amplitudes.
SquaredNumerators(amp, indices) ==
    LET squares == [i \in indices |-> ZMul(amp[i], amp[i])]
    IN  IF 0 \in indices
        THEN ZSum(squares, Cardinality(indices) - 1)
        ELSE ZAdd(squares[1], squares[2])

\* The squared amplitudes of a Qiskit state vector sum to 1: the squared
\* numerators sum to the squared denominator 2^k * 3^m.
Normalised(sv) ==
    SquaredNumerators(sv.amp, DOMAIN sv.amp) = <<Pow(2, sv.k) * Pow(3, sv.m), 0>>

\* The same for a state vector of the single-qubit simulator.
SingleQubitNormalised(state_vector) ==
    SquaredNumerators(state_vector.amp, {1, 2}) = <<Pow(2, state_vector.k), 0>>

\* The single-qubit simulator run on the constructor's label and the gates
\* applied so far.
SingleQubitRun == single_qubit_simulate_circuit(args.initial_state, args.gates)

\* C20: after the preparation of a register of 1, 2 or 3 qubits and after
\* every apply_gate of I, X, Z, H or CNOT, the squared amplitudes of the
\* state vector sum to 1; the same holds for the state vector of the
\* single-qubit QuantumState after the same gates.
C20_Normalised ==
    (op \in {"QiskitQuantumState", "apply_gate"} /\ RegisterLives) =>
        /\ Normalised(get_statevector(ret.state))
        /\ ~SingleQubitRun.raised => SingleQubitNormalised(SingleQubitRun.state_vector)

\* MaxGates gates, an H and a CNOT among them, were applied to a 3-qubit
\* register prepared as |W>.
C20_Witness ==
    /\ op = "apply_gate"
    /\ RegisterLives
    /\ args.initial_state = "|W>"
    /\ args.num_qubits = 3
    /\ Len(args.gates) = MaxGates
    /\ "H" \in Range(args.gates)
    /\ "CNOT" \in Range(args.gates)

(***************************************************************************)
(* Claims about a game in play (SpecGame).  A step of claim_route is       *)
(* described by op', args' and ret', the game before it by ret.game.       *)
(***************************************************************************)
\* The step is a call of claim_route on a route of the list.
ClaimStep == op' = "claim_route" /\ args'.route_idx < Len(ret.game.routes)

\* The route the step's call names, before and after the call, and the
\* player that calls.
ClaimedRoute == ret.game.routes[args'.route_idx + 1]

ClaimedRouteAfter == ret'.game.routes[args'.route_idx + 1]

Claimant == ret.game.players[args'.player]

\* The gates a route offers more than once.
RepeatedGates(route) == {g \in Range(route.gate) : count(route.gate, g) > 1}

\* The recorded owner of instance i (from 0) of a gate of the route; of the
\* gate itself when i is 0 and the gate is offered once.
InstanceOwner(route, gate, i) ==
    IF ~route.claimed_by_is_dict THEN NoPlayer
    ELSE IF dict_get(route.claimed_by, gate).is_list
    THEN dict_get(route.claimed_by, gate).owners[i + 1]
    ELSE IF i = 0 \/ IsNone(dict_get(route.claimed_by, gate))
    THEN dict_get(route.claimed_by, gate).owners[1]
    ELSE NoPlayer

\* Every instance of the gate has an owner.
AllInstancesClaimed(route, gate) ==
    \A i \in 0..(count(route.gate, gate) - 1) : InstanceOwner(route, gate, i) # NoPlayer

\* The step claims a free instance of a repeated gate, naming the instance
\* by gate_index, for a player who holds the cards.
ClaimsFreeInstance ==
    /\ ClaimStep
    /\ args'.selected_gate \in RepeatedGates(ClaimedRoute)
    /\ args'.gate_index \in 0..(count(ClaimedRoute.gate, args'.selected_gate) - 1)
    /\ InstanceOwner(ClaimedRoute, args'.selected_gate, args'.gate_index) = NoPlayer
    /\ Player_can_claim_route(Claimant, args'.selected_gate, ClaimedRoute.length)

\* The step's call returned True and recorded the caller on the instance.
InstanceClaimed ==
    /\ ~ret'.raised
    /\ ret'.result = "True"
    /\ InstanceOwner(ClaimedRouteAfter, args'.selected_gate, args'.gate_index)
           = Claimant.player_id

\* The step calls claim_route for a gate all of whose instances are owned.
ClaimsExhaustedGate ==
    /\ ClaimStep
    /\ args'.selected_gate \in RepeatedGates(ClaimedRoute)
    /\ AllInstancesClaimed(ClaimedRoute, args'.selected_gate)

\* C21 as claimed: on a route offering a gate several times, claiming a
\* free instance by its number is allowed by can_claim_route and succeeds,
\* whatever was claimed before; once every instance is owned,
\* can_claim_route for the gate is False and claim_route returns False.
C21_Claimed ==
    [][/\ ClaimsFreeInstance =>
            /\ can_claim_route(ret.game, Claimant, args'.route_idx,
                               args'.selected_gate, args'.gate_index)
            /\ InstanceClaimed
       /\ ClaimsExhaustedGate =>
            /\ ~can_claim_route(ret.game, Claimant, args'.route_idx,
                                args'.selected_gate, NoIndex)
            /\ ~ret'.raised /\ ret'.result = "False"]_vars

(***************************************************************************)
(* The guaranteed first mission in check_mission_completion (SpecMission). *)
(***************************************************************************)
\* The positions of the guaranteed mission in the player's missions.
GuaranteedMissions ==
    {k \in 1..Len(args.player.missions) : args.player.missions[k] = GuaranteedMission}

\* The gates under which the routes gathered for a mission were claimed.
claimed_gates_of(player_routes) ==
    [j \in 1..Len(player_routes) |-> player_routes[j].claimed_with_gate]

\* The routes check_mission_completion gathers for player_1 and the
\* guaranteed mission, when every start city has a path.
GatheredRoutes(paths) ==
    IF paths.all_paths_exist
    THEN player_routes_for_mission(paths.all_path_routes, Len(paths.all_path_routes))
    ELSE <<>>

\* The register is in |00>.
IsZeroZero(r) ==
    /\ ~r.raised
    /\ SameVector(get_statevector(r.state),
                  get_statevector(QiskitQuantumState("|00>", 2).state))

\* player_1 has paths from both start cities of the guaranteed mission and
\* the gates claimed on their routes, applied to |00>, leave |00>.
ClaimedGatesLeaveZeroZero ==
    /\ op = "check_mission_completion"
    /\ GatheredRoutes(AllPathRoutes(args.game.routes, "player_1", GuaranteedMission,
                                    1, <<>>)) # <<>>
    /\ IsZeroZero(RunGates(QiskitQuantumState("|00>", 2),
                           claimed_gates_of(GatheredRoutes(
                               AllPathRoutes(args.game.routes, "player_1",
                                             GuaranteedMission, 1, <<>>)))))

\* C22 as claimed: check_mission_completion marks the guaranteed mission
\* completed for a player who has claimed Princeton - Carnegie with H,
\* GeorgiaTech - Carnegie with I and Carnegie - U Chicago with CNOT, and
\* does not mark it completed for a player whose claimed gates leave the
\* register in |00>.
C22_Claimed ==
    MissionReturned =>
        \A k \in GuaranteedMissions :
            /\ BellScenario => ret.player.missions[k].completed
            /\ ClaimedGatesLeaveZeroZero => ~ret.player.missions[k].completed

(***************************************************************************)
(* The gate sequence of simulate_multi_qubit_path and the lengths of the   *)
(* routes (SpecMulti).                                                     *)
(***************************************************************************)
RECURSIVE SumOfLengths(_, _)
\* The sum of the lengths of the first n routes.
SumOfLengths(player_routes, n) ==
    IF n = 0 THEN 0
    ELSE SumOfLengths(player_routes, n - 1) + player_routes[n].length

\* The (gate, length) pairs of a gate combination over the claimed routes.
ComboRouteGates(gate_combo) ==
    [j \in 1..Len(gate_combo) |-> <<gate_combo[j], args.player_routes[j].length>>]

\* C23 as claimed: a successful simulate_multi_qubit_path returns the gate
\* sequence simulate_path builds for one gate per claimed route, every
\* gate `length` times, of total length the sum of the routes' lengths.
C23_Claimed ==
    (MultiReturned /\ ~ret.raised /\ ret.success) =>
        /\ Len(ret.gate_sequence) = SumOfLengths(args.player_routes,
                                                 Len(args.player_routes))
        /\ \E n \in 1..Len(GateCombos) :
               ret.gate_sequence = BuildGateSequence(ComboRouteGates(GateCombos[n]),
                                                     Len(GateCombos[n]))

(***************************************************************************)
(* The register prepared for |W> (SpecRegister).                           *)
(***************************************************************************)
\* Basis state i has probability 1/3: 3 |amp|^2 = 2^k 3^m.
HasProbabilityOneThird(sv, i) ==
    ZMul(<<3, 0>>, ZMul(sv.amp[i], sv.amp[i])) = <<Pow(2, sv.k) * Pow(3, sv.m), 0>>

\* The state vector is the W state up to the signs of its amplitudes:
\* probability 1/3 on |001>, |010> and |100> (indices 1, 2, 4), amplitude
\* zero elsewhere.
IsWState(sv) ==
    /\ \A i \in {1, 2, 4} : HasProbabilityOneThird(sv, i)
    /\ \A i \in {0, 3, 5, 6, 7} : sv.amp[i] = ZZero

\* C24 as claimed: the register QiskitQuantumState("|W>", 3) prepares is
\* the W state.
C24_Claimed ==
    RegisterAfterGates("|W>", 3, <<>>) => IsWState(get_statevector(ret.state))

(***************************************************************************)
(* Three-qubit registers prepared in |000> and the feasibility queries     *)
(* for the target |GHZ>: the life of one register as in SpecRegister, or   *)
(* one call of check_route_feasibility.                                    *)
(***************************************************************************)
\* start_cities of the queries: one, two and three cities.
GhzStartCityLists == {<<"A">>, <<"A", "B">>, <<"B", "A", "C">>}

GhzQueries ==
    [start_cities : GhzStartCityLists, target_city : {"C"},
     states : {<<"|000>", "|GHZ>">>},
     available_routes : SeqsUpTo(FeasRoutes, MaxFeasRoutes)]

InitGhz ==
    /\ ret = NoReturn
    /\ \/ /\ op = "QiskitQuantumState"
          /\ args = [initial_state |-> "|000>", num_qubits |-> 3, gates |-> <<>>]
       \/ /\ op = "check_route_feasibility"
          /\ args \in GhzQueries

NextGhz ==
    \/ Construct
    \/ \E gate_name \in GateLabels : op # "check_route_feasibility" /\ ApplyGate(gate_name)
    \/ CheckRouteFeasibility

SpecGhz == InitGhz /\ [][NextGhz]_vars

\* A 3-qubit register prepared in |000> is alive.
ZeroRegister ==
    /\ op \in {"QiskitQuantumState", "apply_gate"}
    /\ RegisterLives
    /\ args.initial_state = "|000>"
    /\ args.num_qubits = 3

\* No amplitude on a basis state with qubit 2 set (indices 4 to 7).
QubitTwoIsZero(sv) == \A i \in DOMAIN sv.amp : Bit(i, 2) = 1 => sv.amp[i] = ZZero

\* C25: whatever gates were applied to a 3-qubit register prepared in
\* |000>, its state has no amplitude on a basis state with qubit 2 set and
\* does not match |GHZ>; and every call of check_route_feasibility with
\* initial state |000> and target |GHZ> returns the empty list.
C25_QubitTwoUntouched ==
    /\ ZeroRegister =>
           /\ QubitTwoIsZero(get_statevector(ret.state))
           /\ ~matches_target(ret.state, "|GHZ>")
    /\ (op = "check_route_feasibility" /\ Returned) =>
           /\ ~ret.raised
           /\ ret.feasible_paths = <<>>

\* H then CNOT were applied to the register and entangled qubits 0 and 1:
\* the gates do act, on those two qubits.
C25_Witness ==
    /\ ZeroRegister
    /\ args.gates = <<"H", "CNOT">>
    /\ get_statevector(ret.state).amp[3] # ZZero

\* The step's call names an instance of a gate of the route that already
\* has an owner.
ClaimsOwnedInstance ==
    /\ ClaimStep
    /\ args'.selected_gate \in Range(ClaimedRoute.gate)
    /\ args'.gate_index \in 0..(count(ClaimedRoute.gate, args'.selected_gate) - 1)
    /\ InstanceOwner(ClaimedRoute, args'.selected_gate, args'.gate_index) # NoPlayer

\* C26 as claimed: a gate instance that has an owner keeps that owner in
\* every step, and a call of claim_route that names an owned instance
\* does not return True.
C26_Claimed ==
    [][/\ \A r \in 1..Len(ret.game.routes) :
              \A g \in Range(ret.game.routes[r].gate) :
                  \A i \in 0..(count(ret.game.routes[r].gate, g) - 1) :
                      InstanceOwner(ret.game.routes[r], g, i) # NoPlayer =>
                          InstanceOwner(ret'.game.routes[r], g, i)
                              = InstanceOwner(ret.game.routes[r], g, i)
       /\ ClaimsOwnedInstance => ret'.result # "True"]_vars

\* The calling player after the step.
ClaimantAfter == ret'.game.players[args'.player]

\* The step's call returned True: the player paid the route's length in
\* cards of one gate the route offers, holds one more route id, and owns
\* an instance of that gate on the route.
PaidAndRecorded ==
    \E g \in Range(ClaimedRoute.gate) :
        /\ ClaimantAfter.hand = [Claimant.hand EXCEPT ![g] = @ - ClaimedRoute.length]
        /\ Len(ClaimantAfter.claimed_routes) = Len(Claimant.claimed_routes) + 1
        /\ \E i \in 0..(count(ClaimedRoute.gate, g) - 1) :
               InstanceOwner(ClaimedRouteAfter, g, i) = Claimant.player_id

\* The step's call left the player's hand, route ids and score and every
\* route's claimed_by as they were.
NothingClaimed ==
    /\ ClaimantAfter.hand = Claimant.hand
    /\ ClaimantAfter.claimed_routes = Claimant.claimed_routes
    /\ ClaimantAfter.score = Claimant.score
    /\ ret'.game.routes = ret.game.routes

\* C27 as claimed: a call of claim_route that returns True takes exactly
\* route.length cards of the gate, adds one route id and records the
\* player; a call that returns False or raises changes nothing; no hand
\* count is ever negative.
C27_Claimed ==
    [][/\ op' = "claim_route" =>
              IF ~ret'.raised /\ ret'.result = "True" THEN PaidAndRecorded
              ELSE NothingClaimed
       /\ \A p \in 1..Len(ret'.game.players) :
              \A g \in GateTypes : ret'.game.players[p].hand[g] >= 0]_vars

\* The game is over and names as winner a player whose has_won is True.
WinnerNamed(game) ==
    \E p \in 1..Len(game.players) :
        /\ game.players[p].player_id = game.winner
        /\ game.players[p].has_won

\* C28: whenever game_over is True the winner is one of the players and
\* that player's has_won is True; game_over never goes back to False; and
\* a call of next_turn on a game that is over leaves current_player_index
\* and turn_number as they were.
C28_GameOverIsFinal ==
    /\ [](ret.game.game_over => WinnerNamed(ret.game))
    /\ [][/\ ret.game.game_over => ret'.game.game_over
          /\ (ret.game.game_over /\ op' = "next_turn") =>
                 /\ ret'.game.current_player_index = ret.game.current_player_index
                 /\ ret'.game.turn_number = ret.game.turn_number]_vars

\* next_turn was called on a game that a completed mission list had
\* ended: the deck still holds cards, so the call itself did not end it.
C28_Witness ==
    /\ op = "next_turn"
    /\ ret.game.game_over
    /\ ret.game.deck > 0
    /\ WinnerNamed(ret.game)
    /\ \E p \in 1..Len(ret.game.players) :
           /\ ret.game.players[p].player_id = ret.game.winner
           /\ \A k \in 1..Len(ret.game.players[p].missions) :
                  ret.game.players[p].missions[k].completed

\* The points of the missions, from the k-th on, that are completed in
\* `after` and were not in `before`.
RECURSIVE PointsOfNewlyCompleted(_, _, _)
PointsOfNewlyCompleted(before, after, k) ==
    IF k > Len(after.missions) THEN 0
    ELSE (IF after.missions[k].completed /\ ~before.missions[k].completed
          THEN after.missions[k].points ELSE 0)
         + PointsOfNewlyCompleted(before, after, k + 1)

\* What the step added to the score of the p-th player beyond the points
\* of the missions the step completed.
ScoreBesideMissions(p) ==
    ret'.game.players[p].score - ret.game.players[p].score
        - PointsOfNewlyCompleted(ret.game.players[p], ret'.game.players[p], 1)

\* The points add_route_scoring gives for the route a claim_route call
\* names, for the claiming player only.
RouteScoreOfStep(p) ==
    IF op' = "claim_route" /\ args'.player = p /\ args'.route_idx < Len(ret.game.routes)
    THEN add_route_scoring(ret.game.players[p],
                           ret.game.routes[args'.route_idx + 1].length).score
             - ret.game.players[p].score
    ELSE 0

\* C29: over claim_route and check_mission_completion calls a completed
\* mission stays completed, and a player's score grows by the points of
\* exactly the missions that go from not completed to completed in the
\* call (beside the route's own points in claim_route), so the points of a
\* mission are awarded at most once.
C29_PointsAwardedOnce ==
    [][op' \in {"claim_route", "check_mission_completion"} =>
         \A p \in 1..Len(ret.game.players) :
            /\ Len(ret'.game.players[p].missions) = Len(ret.game.players[p].missions)
            /\ \A k \in 1..Len(ret.game.players[p].missions) :
                   ret.game.players[p].missions[k].completed
                       => ret'.game.players[p].missions[k].completed
            /\ ScoreBesideMissions(p) \in {0, RouteScoreOfStep(p)}
            /\ op' = "check_mission_completion" => ScoreBesideMissions(p) = 0]_vars

\* check_mission_completion returned False for a player who holds a
\* completed mission and one that is not: the completed one was skipped,
\* and the score holds that mission's points once, not twice.
C29_Witness ==
    /\ op = "check_mission_completion"
    /\ ~ret.raised
    /\ ret.result = "False"
    /\ \E k, j \in 1..Len(ret.game.players[args.player].missions) :
           /\ ret.game.players[args.player].missions[k].completed
           /\ ~ret.game.players[args.player].missions[j].completed
           /\ ret.game.players[args.player].score
                  >= ret.game.players[args.player].missions[k].points
           /\ ret.game.players[args.player].score
                  < 2 * ret.game.players[args.player].missions[k].points


(***************************************************************************)
(* Whole runs of initialize_missions: the while loop is followed until its *)
(* own condition ends it, then the deck is shuffled.  The record `checks`  *)
(* of the feasibility calls is not kept in these runs, and what            *)
(* check_route_feasibility gives for a candidate is computed once.         *)
(***************************************************************************)
\* The configurations of the runs: two cities and no route, so that no
\* candidate is feasible; two cities joined by an X route; the four
\* cities and the routes of the Bell scenario.
AuthoringGames ==
    {[routes |-> <<>>, cities |-> {"Princeton", "U Chicago"}],
     [routes |-> <<ConfigRoute("Princeton", "U Chicago", <<"X">>, 1)>>,
      cities |-> {"Princeton", "U Chicago"}],
     [routes |-> <<ConfigRoute("Princeton", "Carnegie", <<"H">>, 1),
                   ConfigRoute("GeorgiaTech", "Carnegie", <<"I">>, 1),
                   ConfigRoute("Carnegie", "U Chicago", <<"CNOT">>, 1)>>,
      cities |-> Universities]}

\* What random can return in one iteration: start cities, a target that
\* is none of them, a target state of the pool chosen, a path index.
AuthoringDraws(cities, drawn, num_qubits) ==
    IF Cardinality(cities) < num_qubits + 1
    THEN Draws(cities, drawn, num_qubits)
    ELSE UNION {{[num_qubits |-> drawn, start_cities |-> s, target |-> t,
                  special |-> b, target_state |-> ts, selected |-> k] :
                    t \in cities \ Range(s), ts \in target_states_of(num_qubits, b),
                    k \in 1..MaxSelected} :
                  s \in Samples(cities, num_qubits), b \in BOOLEAN}

\* A call check_route_feasibility(start_cities, target, init_state,
\* target_state, self.routes) of a run.
FeasibilityQuery(game, start_cities, target, target_state) ==
    [game |-> game, start_cities |-> start_cities, target |-> target,
     target_state |-> target_state]

\* Every call the runs can make, next to what it gives.
FeasibilityAnswers ==
    UNION {{<<FeasibilityQuery(game, draw.start_cities, draw.target, draw.target_state),
              check_route_feasibility(draw.start_cities, draw.target,
                                      init_state_of(Len(draw.start_cities)),
                                      draw.target_state, game.routes)>> :
               draw \in {d \in AuthoringDraws(game.cities, n, n) :
                            d.start_cities # <<>> /\ d.selected = 1}} :
             game \in AuthoringGames, n \in {1, 2, 3}}

AnswerTo(query) == (CHOOSE answer \in FeasibilityAnswers : answer[1] = query)[2]

\* mission_cfg of the runs: decks of up to three missions.
AuthoringConfigs ==
    [num_missions : {0, 1, 2, 3}, allow_double : BOOLEAN,
     allow_triple : BOOLEAN, points_per_step : {2}, base_points : {5}]

\* Decks of three missions are followed on the games of two cities.
AuthoringArgs ==
    {a \in [game : AuthoringGames, cfg : AuthoringConfigs] :
        a.cfg.num_missions = 3 => a.game.cities # Universities}

InitAuthoring ==
    /\ op = "initialize_missions"
    /\ args \in AuthoringArgs
    /\ ret = BeforeAttempts

\* One iteration of the while loop.
AuthoringAttempt ==
    /\ op = "initialize_missions"
    /\ ~ret.done
    /\ ~ret.raised
    /\ MoreAttempts(ret, args.cfg)
    /\ \E drawn \in {1, 2, 3} :
           \E draw \in AuthoringDraws(args.game.cities, drawn,
                                      AllowedQubits(args.cfg, drawn)) :
               ret' = [(IF Len(ret.mission_deck) = 0 THEN AddBellMission(ret)
                        ELSE CandidateGiven(args.game, [ret EXCEPT !.attempts = @ + 1],
                                            args.cfg, draw,
                                            AllowedQubits(args.cfg, drawn),
                                            AnswerTo(FeasibilityQuery(args.game,
                                                                      draw.start_cities,
                                                                      draw.target,
                                                                      draw.target_state))))
                          EXCEPT !.checks = {}]
    /\ UNCHANGED <<op, args>>

NextAuthoring == AuthoringAttempt \/ Shuffle

\* The loop is sequential code: a call that can take a step takes it.
SpecAuthoring ==
    InitAuthoring /\ [][NextAuthoring]_vars /\ WF_vars(NextAuthoring)

\* (set of start cities, target city, qubit count) of a mission.
KeyOfMission(card) ==
    <<Range(card.start_cities), card.target_city, card.num_qubits>>

WithinAttempts ==
    /\ ret.attempts <= args.cfg.num_missions * 20
    /\ Len(ret.mission_deck) <= args.cfg.num_missions
    /\ \A i, j \in 1..Len(ret.mission_deck) :
           i # j => KeyOfMission(ret.mission_deck[i]) # KeyOfMission(ret.mission_deck[j])

\* C30: initialize_missions always ends, by its shuffle or by an
\* exception; it never makes more than num_missions * 20 iterations,
\* never holds more than num_missions missions, and never holds two
\* missions with the same set of start cities, target city and qubit
\* count.
C30_AuthoringTerminates ==
    /\ []WithinAttempts
    /\ <>(ret.done \/ ret.raised)

\* A run that used up all num_missions * 20 iterations without filling
\* the deck, and was shuffled.
C30_Witness ==
    /\ ret.done
    /\ args.cfg.num_missions > 0
    /\ ret.attempts = args.cfg.num_missions * 20
    /\ Len(ret.mission_deck) < args.cfg.num_missions
====
